---- MODULE Spec2Model ----
(***************************************************************************)
(* Model of the DLMS push listener: the message classifier and response    *)
(* generator (message_handler.py), the request-info extractor              *)
(* (DLMS_Parser.py), the FCS routine (utils.py) and the TCP/UDP handlers   *)
(* (Network_Server.py).                                                    *)
(*                                                                         *)
(* Bytes are integers 0..255, byte strings are sequences of bytes, text is *)
(* a sequence of code points, and an XML attribute value is a sequence of  *)
(* one-character strings.  None (Python) is the empty sequence wherever a  *)
(* byte string or None is returned.                                        *)
(***************************************************************************)
EXTENDS Integers, Sequences, FiniteSets, TLC

VARIABLES status, wire, acks, pushSent, envExc, nSent, last,
          running, pc, listen, file, loaded

vars == <<status, wire, acks, pushSent, envExc, nSent, last,
          running, pc, listen, file, loaded>>

(***************************************************************************)
(* Bounds of the model.                                                    *)
(***************************************************************************)
NConn == 2          \* accepted TCP connections
MaxSends == 2       \* peer writes and datagrams in one behaviour
SplitShort == 4     \* a receive call may return only this many bytes
SplitLong == 12     \* ... or this many

Conns == 1..NConn

(***************************************************************************)
(* Integer helpers: 16-bit exclusive or, as Python's ^ on the FCS register.*)
(***************************************************************************)
XorNibble ==
    [a \in 0..15, b \in 0..15 |->
        ((a + b) % 2)
        + 2 * (((a \div 2) + (b \div 2)) % 2)
        + 4 * (((a \div 4) + (b \div 4)) % 2)
        + 8 * (((a \div 8) + (b \div 8)) % 2)]

Xor8(a, b) == 16 * XorNibble[a \div 16, b \div 16] + XorNibble[a % 16, b % 16]

Xor16(a, b) == 256 * Xor8(a \div 256, b \div 256) + Xor8(a % 256, b % 256)

(***************************************************************************)
(* utils.calculate_fcs.  The first branch calls the external primitive     *)
(* gurux_dlms._GXFCS16.countFCS16 (table driven, register shifted right,   *)
(* complemented and byte-swapped on return); the second is the routine     *)
(* written out in utils.py.                                                *)
(***************************************************************************)
RECURSIVE Fcs16TableEntry(_, _)
Fcs16TableEntry(v, n) ==
    IF n = 0 THEN v
    ELSE Fcs16TableEntry(IF v % 2 = 1 THEN Xor16(v \div 2, 33800) ELSE v \div 2, n - 1)

FCS16_TABLE == [i \in 0..255 |-> Fcs16TableEntry(i, 8)]

\* fcs16 = (fcs16 >> 8) ^ FCS16_TABLE[(fcs16 ^ b) & 0xFF]
Fcs16Step(fcs16, b) ==
    Xor16(fcs16 \div 256, FCS16_TABLE[Xor8(fcs16 % 256, b)])

\* the loop over the buffer, the register being a value at every turn
RECURSIVE CountFCS16Reg(_, _, _)
CountFCS16Reg(buff, pos, fcs16) ==
    IF pos > Len(buff) THEN fcs16
    ELSE CHOOSE out \in {CountFCS16Reg(buff, pos + 1, reg) :
                            reg \in {Fcs16Step(fcs16, buff[pos])}} : TRUE

CountFCS16(buff) ==
    LET inv == 65535 - CountFCS16Reg(buff, 1, 65535)
    IN  (inv \div 256) + 256 * (inv % 256)

RECURSIVE CrcShift(_, _)
CrcShift(crc, n) ==
    IF n = 0 THEN crc
    ELSE CrcShift(IF crc >= 32768
                  THEN Xor16((crc * 2) % 65536, 4129)
                  ELSE (crc * 2) % 65536, n - 1)

RECURSIVE HandRolledFcs(_, _, _)
HandRolledFcs(data, pos, crc) ==
    IF pos > Len(data) THEN crc
    ELSE CHOOSE out \in {HandRolledFcs(data, pos + 1, reg) :
                            reg \in {CrcShift(Xor16(crc, data[pos] * 256), 8)}} : TRUE

GXFCS16_available == TRUE

calculate_fcs(data) ==
    IF GXFCS16_available THEN CountFCS16(data)
    ELSE HandRolledFcs(data, 1, 65535)

\* int.to_bytes(2, 'big')
ToBytesBig2(v) == <<v \div 256, v % 256>>

(***************************************************************************)
(* Text.  raw_data.decode('utf-8', errors='replace'): the buffers of this  *)
(* model hold ASCII bytes and bytes that are not valid UTF-8 where they    *)
(* stand (0x7E-framed binary), which decode to U+FFFD each.                *)
(***************************************************************************)
RECURSIVE DecodeUtf8Replace(_)
DecodeUtf8Replace(raw) ==
    IF raw = <<>> THEN <<>>
    ELSE <<IF Head(raw) < 128 THEN Head(raw) ELSE 65533>> \o DecodeUtf8Replace(Tail(raw))

\* \s, \d and [\d.] of Python's re on str, for the code points above
IsSpace(c) == c \in {9, 10, 11, 12, 13, 28, 29, 30, 31, 32}
IsNonSpace(c) == ~IsSpace(c)
IsDigit(c) == c \in 48..57
IsDigitOrDot(c) == IsDigit(c) \/ c = 46

\* the character classes of the pattern
InClass(c, class) ==
    CASE class = "\\S" -> IsNonSpace(c)
      [] class = "\\s" -> IsSpace(c)
      [] class = "\\d" -> IsDigit(c)
      [] class = "[\\d.]" -> IsDigitOrDot(c)

\* the index after the longest run of characters satisfying P that starts at i
RunEnd(text, i, class) ==
    CHOOSE j \in i..(Len(text) + 1) :
        /\ \A k \in i..(j - 1) : InClass(text[k], class)
        /\ (j = Len(text) + 1 \/ ~InClass(text[j], class))

HasLit(text, i, lit) ==
    /\ i + Len(lit) - 1 <= Len(text)
    /\ \A k \in 1..Len(lit) : text[i + k - 1] = lit[k]

RECURSIVE DecimalValue(_)
DecimalValue(digits) ==
    IF digits = <<>> THEN 0
    ELSE 10 * DecimalValue(SubSeq(digits, 1, Len(digits) - 1))
         + (digits[Len(digits)] - 48)

NoMatch == [found |-> FALSE, sn |-> <<>>, ip |-> <<>>, port_str |-> <<>>]

(***************************************************************************)
(* AUTOCONNECT_PATTERN = <sn=(\S+)\s+ip=([\d.]+)\s+pt=(\d+)> tried at      *)
(* position i.  Every repetition is followed by a character outside its    *)
(* class, so the only way to match is with each repetition taking its      *)
(* longest run.                                                            *)
(***************************************************************************)
\* <sn=(\S+)\s+ip=([\d.]+)\s+pt=(\d+)> from position i on, piece by piece
\* from the last one to the first: every repetition takes the longest run
\* there is, and giving characters back cannot make the next piece match
MatchPt(text, sn, ip, g3s, g3e) ==
    IF g3e = g3s \/ ~HasLit(text, g3e, <<62>>)                        \* >
    THEN NoMatch
    ELSE [found |-> TRUE, sn |-> sn, ip |-> ip,
          port_str |-> SubSeq(text, g3s, g3e - 1)]

MatchGap2(text, sn, ip, g2e, s2e) ==
    IF s2e = g2e \/ ~HasLit(text, s2e, <<112, 116, 61>>)              \* pt=
    THEN NoMatch
    ELSE MatchPt(text, sn, ip, s2e + 3, RunEnd(text, s2e + 3, "\\d"))

MatchIp(text, sn, g2s, g2e) ==
    IF g2e = g2s THEN NoMatch
    ELSE MatchGap2(text, sn, SubSeq(text, g2s, g2e - 1), g2e, RunEnd(text, g2e, "\\s"))

MatchGap1(text, sn, g1e, s1e) ==
    IF s1e = g1e \/ ~HasLit(text, s1e, <<105, 112, 61>>)              \* ip=
    THEN NoMatch
    ELSE MatchIp(text, sn, s1e + 3, RunEnd(text, s1e + 3, "[\\d.]"))

MatchSn(text, g1s, g1e) ==
    IF g1e = g1s THEN NoMatch
    ELSE MatchGap1(text, SubSeq(text, g1s, g1e - 1), g1e, RunEnd(text, g1e, "\\s"))

AutoconnectMatchAt(text, i) ==
    IF ~HasLit(text, i, <<60, 115, 110, 61>>)                         \* <sn=
    THEN NoMatch
    ELSE MatchSn(text, i + 4, RunEnd(text, i + 4, "\\S"))

\* AUTOCONNECT_PATTERN.search(text): the leftmost position that matches
FirstMatch(text, hits) ==
    IF hits = {} THEN NoMatch
    ELSE AutoconnectMatchAt(text, CHOOSE i \in hits : \A j \in hits : i <= j)

AutoconnectSearch(text) ==
    FirstMatch(text, {i \in 1..Len(text) : AutoconnectMatchAt(text, i).found})

(***************************************************************************)
(* Hex strings (XML attribute values): sequences of one-character strings. *)
(***************************************************************************)
HexDigits == <<"0", "1", "2", "3", "4", "5", "6", "7",
               "8", "9", "A", "B", "C", "D", "E", "F">>

HexChars == {HexDigits[i] : i \in 1..16}

Upper(c) ==
    CASE c = "a" -> "A" [] c = "b" -> "B" [] c = "c" -> "C"
      [] c = "d" -> "D" [] c = "e" -> "E" [] c = "f" -> "F"
      [] OTHER -> c

RECURSIVE UpperStr(_)
UpperStr(s) == IF s = <<>> THEN <<>> ELSE <<Upper(Head(s))>> \o UpperStr(Tail(s))

IsHexChar(c) == c \in HexChars

HexVal(c) == (CHOOSE i \in 1..16 : HexDigits[i] = c) - 1

\* f"{b:02X}" without the separator
ByteHex(b) == <<HexDigits[(b \div 16) + 1], HexDigits[(b % 16) + 1]>>

RECURSIVE BytesHex(_)
BytesHex(bs) ==
    IF bs = <<>> THEN <<>> ELSE ByteHex(Head(bs)) \o BytesHex(Tail(bs))

\* str.strip() for the blank
RECURSIVE LStrip(_)
LStrip(s) == IF s # <<>> /\ Head(s) = " " THEN LStrip(Tail(s)) ELSE s

RECURSIVE RStrip(_)
RStrip(s) ==
    IF s # <<>> /\ s[Len(s)] = " " THEN RStrip(SubSeq(s, 1, Len(s) - 1)) ELSE s

Strip(s) == RStrip(LStrip(s))

\* str.zfill(8)
RECURSIVE ZFill8(_)
ZFill8(s) == IF Len(s) >= 8 THEN s ELSE ZFill8(<<"0">> \o s)

\* bytes.fromhex on a string of hex digits: ValueError on an odd count
FromHexRaises(s) == Len(s) % 2 = 1

RECURSIVE BytesFromHex(_)
BytesFromHex(s) ==
    IF Len(s) < 2 THEN <<>>
    ELSE <<16 * HexVal(s[1]) + HexVal(s[2])>> \o BytesFromHex(Tail(Tail(s)))

(***************************************************************************)
(* The decoded message.  The APDU codec (gurux_dlms.GXDLMSTranslator) is   *)
(* external; of the XML it returns the model keeps whether it was produced *)
(* at all (ok) and the Value attributes of the LongInvokeIdAndPriority     *)
(* elements in document order (lip).  enhance_xml_element only appends     *)
(* comments to these elements, so the enhanced XML has the same values.    *)
(***************************************************************************)
DecodeFailed == [ok |-> FALSE, lip |-> <<>>]

Decoded(values) == [ok |-> TRUE, lip |-> values]

\* ''.join(c for c in val.upper() if c in "0123456789ABCDEF")
CleanHex(val) == SelectSeq(UpperStr(val), IsHexChar)

HasLongInvokeShort(clean) == clean # <<>> /\ Len(clean) >= 6

\* if clean and len(clean) >= 8
HasLongInvoke(clean) == clean # <<>> /\ Len(clean) >= 8

(***************************************************************************)
(* extract_dlms_request_info: search() visits the elements in document     *)
(* order and overwrites info['invoke_id'] at every LongInvokeIdAndPriority *)
(* whose cleaned value is long enough.  None is <<>>.                      *)
(***************************************************************************)
RECURSIVE SearchInvokeId(_, _)
SearchInvokeId(lip, invoke_id) ==
    IF lip = <<>> THEN invoke_id
    ELSE LET val == Strip(Head(lip))
             clean == CleanHex(val)
         IN  SearchInvokeId(Tail(lip),
                 IF val # <<>> /\ HasLongInvoke(clean)
                 THEN SubSeq(clean, 3, Len(clean))
                 ELSE invoke_id)

extract_dlms_request_info(xml) == [invoke_id |-> SearchInvokeId(xml.lip, <<>>)]

InvokeCleanHexNoPad(invoke_hex) == invoke_hex

\* invoke_hex[2:].zfill(8) if len(invoke_hex) >= 8 else invoke_hex.zfill(8)
InvokeCleanHex(invoke_hex) ==
    IF Len(invoke_hex) >= 8
    THEN ZFill8(SubSeq(invoke_hex, 3, Len(invoke_hex)))
    ELSE ZFill8(invoke_hex)

(***************************************************************************)
(* _generate_response.  now is datetime.now() as a record.                 *)
(***************************************************************************)
PduResponseTwelve(invoke_bytes, now) ==
    <<16>> \o invoke_bytes \o
    <<12, (now.year \div 256) % 256, now.year % 256, now.month, now.day, 255,
      now.hour, now.minute, now.second, 255, 255, 76, 0>>

PduResponse(invoke_bytes, now) ==
    <<16>> \o invoke_bytes \o
    <<12, (now.year \div 256) % 256, now.year % 256, now.month, now.day, 255,
      now.hour, now.minute, now.second, 255, 255, 76, 0, 0>>

control_byte == <<160>>
fixed_prefix == <<19>>
llc == <<230, 231, 0>>

InformationField(pdu_response) == fixed_prefix \o llc \o pdu_response

AckLengthNoHeader(address_field, information_field) ==
    Len(address_field \o information_field) + 2

AckLengthWithFlags(address_field, information_field) ==
    Len(address_field) + Len(information_field) + 8

AckLengthNoTrailer(address_field, information_field) ==
    Len(address_field \o information_field) + 4

AckLength(address_field, information_field) ==
    Len(address_field \o information_field) + 6

FcsHandler(length, address_field) ==
    ToBytesBig2(calculate_fcs(control_byte \o <<length>> \o address_field \o fixed_prefix))

Payload(address_field, fcs_handler, pdu_response) ==
    address_field \o fixed_prefix \o fcs_handler \o llc \o pdu_response

DataForFcsNoHeader(length, payload) == payload

DataForFcs(length, payload) == control_byte \o <<length>> \o payload

AckFrame(length, payload, fcs) == <<126, 160, length>> \o payload \o fcs \o <<126>>

generate_response(address_field, invoke_clean_hex, now) ==
    IF FromHexRaises(invoke_clean_hex) THEN <<>>
    ELSE LET pdu == PduResponse(BytesFromHex(invoke_clean_hex), now)
             information == InformationField(pdu)
             len == AckLength(address_field, information)
         IN  IF len > 255 THEN <<>>
             ELSE LET pay == Payload(address_field, FcsHandler(len, address_field), pdu)
                      fcs2 == ToBytesBig2(calculate_fcs(DataForFcs(len, pay)))
                  IN  AckFrame(len, pay, fcs2)

(***************************************************************************)
(* MessageProcessor.  The result of processing one buffer is the record    *)
(*   events  : the calls made, in order (collaborator callbacks, the       *)
(*             codec, the response generator),                             *)
(*   exc     : the places where an exception was raised,                   *)
(*   escaped : an exception left process_message,                          *)
(*   resp    : the bytes returned, <<>> for None.                          *)
(* The environment of one call (env) says whether the collaborator         *)
(* callbacks raise, whether the output callback raises on a line that      *)
(* echoes inbound text (message_handler.py lines 42 and 57), and what      *)
(* datetime.now() returns.  Both callbacks are configured, as DLMS_UI      *)
(* constructs the server.                                                  *)
(***************************************************************************)
Ev(op) == [op |-> op, sn |-> <<>>, ip |-> <<>>, port |-> 0]

EvAutoconnect(m) ==
    [op |-> "on_autoconnect", sn |-> m.sn, ip |-> m.ip,
     port |-> DecimalValue(m.port_str)]

HasOp(events, op) == \E i \in 1..Len(events) : events[i].op = op

CountOp(events, op) == Cardinality({i \in 1..Len(events) : events[i].op = op})

\* _is_autoconnect from "if match:" on: [ret, events, exc]
AnnounceAutoconnect(match, env) ==
    IF ~match.found
    THEN [ret |-> FALSE, events |-> <<>>, exc |-> {}]
    ELSE IF env.acRaises
    THEN [ret |-> FALSE, events |-> <<EvAutoconnect(match)>>,
          exc |-> {"on_autoconnect"}]
    ELSE IF env.echoRaises
    THEN [ret |-> FALSE, events |-> <<EvAutoconnect(match)>>,
          exc |-> {"logger"}]
    ELSE [ret |-> TRUE, events |-> <<EvAutoconnect(match)>>, exc |-> {}]

\* _is_autoconnect
is_autoconnect(raw_data, env) ==
    AnnounceAutoconnect(AutoconnectSearch(DecodeUtf8Replace(raw_data)), env)

\* _is_dlms_frame
is_dlms_frame(raw_data) == raw_data # <<>> /\ raw_data[1] = 126

TooShortLax(raw_data) == Len(raw_data) < 4

\* if len(raw_data) < 10
TooShort(raw_data) == Len(raw_data) < 10

AddressFieldAsReceived(raw_data) == SubSeq(raw_data, 4, 8)

AddressField(raw_data) == SubSeq(raw_data, 5, 8) \o SubSeq(raw_data, 4, 4)

\* _process_dlms_frame, the response for the hex string of the invoke-id
Respond(address_field, invoke_clean_hex, now) ==
    [events |-> <<Ev("_generate_response")>>,
     exc |-> IF FromHexRaises(invoke_clean_hex) THEN {"fromhex"} ELSE {},
     resp |-> generate_response(address_field, invoke_clean_hex, now)]

\* _process_dlms_frame from "if not info or not info.get('invoke_id')" on
AcknowledgeInvoke(raw_data, invoke_id, env) ==
    IF invoke_id = <<>>
    THEN [events |-> <<>>, exc |-> {}, resp |-> <<>>]
    ELSE Respond(AddressField(raw_data), InvokeCleanHex(UpperStr(invoke_id)), env.now)

\* _process_dlms_frame after the callback: addresses, invoke-id, response
Acknowledge(raw_data, xml, env) ==
    AcknowledgeInvoke(raw_data, extract_dlms_request_info(xml).invoke_id, env)

\* the codec and the push callback have been called, then a
Pushed(a) ==
    [events |-> <<Ev("messageToXml"), Ev("on_dlms_push")>> \o a.events,
     exc |-> a.exc, resp |-> a.resp]

\* _process_dlms_frame from the codec call on (lines 78-117)
DecodeAndAcknowledge(raw_data, xml, env) ==
    IF ~xml.ok
    THEN [events |-> <<Ev("messageToXml")>>, exc |-> {"messageToXml"}, resp |-> <<>>]
    ELSE IF env.pushRaises
    THEN [events |-> <<Ev("messageToXml"), Ev("on_dlms_push")>>,
          exc |-> {"on_dlms_push"}, resp |-> <<>>]
    ELSE Pushed(Acknowledge(raw_data, xml, env))

\* _process_dlms_frame: every exception is caught here and gives None
process_dlms_frame(raw_data, xml, env) ==
    IF TooShort(raw_data)
    THEN [events |-> <<>>, exc |-> {}, resp |-> <<>>]
    ELSE DecodeAndAcknowledge(raw_data, xml, env)

\* process_message, "return self._process_dlms_frame(...)" after the
\* autoconnect check ac
FrameResult(ac, d) ==
    [events |-> ac.events \o d.events, exc |-> ac.exc \cup d.exc,
     escaped |-> FALSE, resp |-> d.resp]

\* process_message after the autoconnect check ac
Dispatch(ac, raw_data, xml, env) ==
    IF ac.ret
    THEN [events |-> ac.events, exc |-> ac.exc, escaped |-> FALSE, resp |-> <<>>]
    ELSE IF ~is_dlms_frame(raw_data)
    THEN [events |-> ac.events,
          exc |-> ac.exc \cup (IF env.echoRaises THEN {"logger"} ELSE {}),
          escaped |-> env.echoRaises, resp |-> <<>>]
    ELSE FrameResult(ac, process_dlms_frame(raw_data, xml, env))

\* process_message; xml is what the codec gives for raw_data if it is called
process_message(raw_data, xml, env) ==
    Dispatch(is_autoconnect(raw_data, env), raw_data, xml, env)

(***************************************************************************)
(* The peers.  A meter frame is                                            *)
(*   7E A0 len dst(1) src(4) 13 HCS(2) E6 E7 00 APDU FCS(2) 7E             *)
(* with len the number of bytes between the flags, so that dst is          *)
(* raw_data[3:4] and src is raw_data[4:8].  APDU tag 0F is a data          *)
(* notification, which starts with the 4-byte long-invoke-id-and-priority. *)
(***************************************************************************)
MeterFrame(your, meter, apdu) ==
    LET head == <<160, 13 + Len(apdu) + 2, your>> \o meter \o <<19>>
        body == head \o ToBytesBig2(CountFCS16(head)) \o <<230, 231, 0>> \o apdu
    IN  <<126>> \o body \o ToBytesBig2(CountFCS16(body)) \o <<126>>

MeterAddr == <<0, 2, 68, 201>>

\* <sn=A ip=1.2 pt=40>
AutoconnectText ==
    <<60, 115, 110, 61, 65, 32, 105, 112, 61, 49, 46, 50, 32, 112, 116, 61, 52, 48, 62>>

\* <sn=A ip=1.2> : no pt= field
PlainText == <<60, 115, 110, 61, 65, 32, 105, 112, 61, 49, 46, 50, 62>>

\* data notification, invoke-id-and-priority C000001A, no date-time, null data
PushFrame == MeterFrame(3, MeterAddr, <<15, 192, 0, 0, 26, 0, 0>>)

\* data notification whose octet-string data is the autoconnect text
AutoconnectInFrame ==
    MeterFrame(3, MeterAddr, <<15, 192, 0, 0, 43, 0, 9, 19>> \o AutoconnectText)

\* an APDU that is not a data notification (event notification request)
EventFrame == MeterFrame(3, MeterAddr, <<194, 0, 0>>)

\* nine bytes starting with the flag
ShortFrame == <<126, 160, 7, 3, 0, 2, 68, 201, 126>>

\* PushFrame with a damaged checksum
BadFrame == [PushFrame EXCEPT ![Len(PushFrame) - 1] = (@ + 1) % 256]

TcpMessages == {AutoconnectText, AutoconnectInFrame, PlainText, PushFrame, EventFrame}

Datagrams == TcpMessages \cup {<<>>, ShortFrame, BadFrame}

(***************************************************************************)
(* GXDLMSTranslator.messageToXml as the model has it: the buffer must      *)
(* start with one complete frame with good checksums.  What the codec does *)
(* with bytes that follow the frame is not known to this repository: it    *)
(* either decodes the first frame or raises.                               *)
(***************************************************************************)
FrameComplete(data) ==
    /\ Len(data) >= 3
    /\ data[1] = 126 /\ data[2] = 160
    /\ data[3] >= 16
    /\ Len(data) >= data[3] + 2
    /\ data[data[3] + 2] = 126
    /\ SubSeq(data, 10, 11) = ToBytesBig2(CountFCS16(SubSeq(data, 2, 9)))
    /\ SubSeq(data, data[3], data[3] + 1)
         = ToBytesBig2(CountFCS16(SubSeq(data, 2, data[3] - 1)))

FrameXml(data) ==
    LET apdu == SubSeq(data, 15, data[3] - 1)
    IN  IF apdu[1] = 15 /\ Len(apdu) >= 5
        THEN Decoded(<<BytesHex(SubSeq(apdu, 2, 5))>>)
        ELSE Decoded(<<>>)

MessageToXmlOutcomes(data) ==
    IF ~FrameComplete(data) THEN {DecodeFailed}
    ELSE IF Len(data) = data[3] + 2 THEN {FrameXml(data)}
    ELSE {FrameXml(data), DecodeFailed}

Nows ==
    {[year |-> 2026, month |-> 1, day |-> 13, hour |-> 14, minute |-> 33, second |-> 20],
     [year |-> 2025, month |-> 12, day |-> 31, hour |-> 23, minute |-> 59, second |-> 59]}

Envs == [acRaises : BOOLEAN, pushRaises : BOOLEAN, echoRaises : BOOLEAN, now : Nows]

CalmEnv == [acRaises |-> FALSE, pushRaises |-> FALSE, echoRaises |-> FALSE,
            now |-> CHOOSE n \in Nows : TRUE]

\* a frame that is acknowledged when it arrives alone and nothing raises
Acknowledgeable(m) ==
    \E x \in MessageToXmlOutcomes(m) : process_message(m, x, CalmEnv).resp # <<>>

(***************************************************************************)
(* Network_Server.  The server is started (self.running is True) and NConn *)
(* connections have been accepted, each served by handle_tcp_client in its *)
(* own thread; a UDP socket is open on the port the datagrams arrive on.   *)
(*   status[c] : "open" while the handler of c is in its loop              *)
(*   wire[c]   : bytes the peer has written and recv has not returned yet  *)
(*   acks[c]   : responses sent on c                                       *)
(*   pushSent[c], envExc[c], nSent : history (acknowledgeable frames       *)
(*               written by the peer of c, a callback or the output        *)
(*               callback raised on c, writes and datagrams so far)        *)
(*   last      : what the server did with the last buffer it got           *)
(*   running   : self.running                                              *)
(*   pc        : where each thread is, in the specifications with threads  *)
(*   listen    : the listening sockets that are open, and whether closing  *)
(*               one makes a call blocked on it in another thread fail     *)
(*   file, loaded : the JSON file of the day and the list each writer has  *)
(*               read from it, in the specification of the appends         *)
(***************************************************************************)
RecvBufSize == 4096

NoOp == [kind |-> "none", conn |-> 0, raw |-> <<>>, xml |-> DecodeFailed,
         events |-> <<>>, exc |-> {}, escaped |-> FALSE, resp |-> <<>>,
         sent |-> FALSE]

EnvRaised(exc) == exc \cap {"on_autoconnect", "on_dlms_push", "logger"} # {}

\* the record of one processed buffer; the response is sent if there is one
Done(kind, c, raw, xml, r) ==
    [kind |-> kind, conn |-> c, raw |-> raw,
     xml |-> IF HasOp(r.events, "messageToXml") THEN xml ELSE DecodeFailed,
     events |-> r.events, exc |-> r.exc, escaped |-> r.escaped,
     resp |-> r.resp, sent |-> ~r.escaped /\ r.resp # <<>>]

\* both listening sockets are open; closing one makes a call blocked on it
\* fail
Listening == [open |-> {"tcp", "udp"}, wakes |-> TRUE]

\* the file of the day is not there yet
NoFile == [exists |-> FALSE, valid |-> FALSE, items |-> <<>>]

Init ==
    /\ status = [c \in Conns |-> "open"]
    /\ wire = [c \in Conns |-> <<>>]
    /\ acks = [c \in Conns |-> 0]
    /\ pushSent = [c \in Conns |-> 0]
    /\ envExc = [c \in Conns |-> FALSE]
    /\ nSent = 0
    /\ last = NoOp
    /\ running = TRUE
    /\ pc = <<>>
    /\ listen = Listening
    /\ file = NoFile
    /\ loaded = <<>>

\* the peer of c writes one message
ClientSend(c, m) ==
    /\ status[c] = "open"
    /\ nSent < MaxSends
    /\ wire' = [wire EXCEPT ![c] = @ \o m]
    /\ pushSent' = [pushSent EXCEPT ![c] = @ + (IF Acknowledgeable(m) THEN 1 ELSE 0)]
    /\ nSent' = nSent + 1
    /\ UNCHANGED <<status, acks, envExc, last, running, pc, listen, file, loaded>>

\* process_message on one buffer, over what the codec may make of it and
\* over what the callbacks, the output callback and the clock may do
Handled(raw_data) ==
    {[xml |-> x, res |-> process_message(raw_data, x, e)] :
        x \in MessageToXmlOutcomes(raw_data), e \in Envs}

\* what one recv(4096) may return of the bytes on the wire
RecvSizes(w) ==
    {n \in {Len(w), SplitShort, SplitLong} : 1 <= n /\ n <= Len(w) /\ n <= RecvBufSize}

\* handle_tcp_client: one turn of the loop with a non-empty buffer
TcpReceive(c) ==
    /\ status[c] = "open"
    /\ wire[c] # <<>>
    /\ \E n \in RecvSizes(wire[c]) :
         /\ \E h \in Handled(SubSeq(wire[c], 1, n)) :
              last' = Done("tcp", c, SubSeq(wire[c], 1, n), h.xml, h.res)
         /\ wire' = [wire EXCEPT ![c] = SubSeq(@, n + 1, Len(@))]
    /\ status' = [status EXCEPT ![c] = IF last'.escaped THEN "closed" ELSE @]
    /\ acks' = [acks EXCEPT ![c] = @ + (IF last'.sent THEN 1 ELSE 0)]
    /\ envExc' = [envExc EXCEPT ![c] = @ \/ EnvRaised(last'.exc)]
    /\ UNCHANGED <<pushSent, nSent, running, pc, listen, file, loaded>>

\* handle_tcp_client: recv returns b'' (the peer has closed), the loop ends
TcpEof(c) ==
    /\ status[c] = "open"
    /\ wire[c] = <<>>
    /\ status' = [status EXCEPT ![c] = "closed"]
    /\ last' = [NoOp EXCEPT !.kind = "eof", !.conn = c]
    /\ UNCHANGED <<wire, acks, pushSent, envExc, nSent, running, pc, listen, file, loaded>>

\* udp_loop and handle_udp_packet: one datagram, handled in its own thread
UdpPacket(m) ==
    /\ nSent < MaxSends
    /\ \E h \in Handled(m) : last' = Done("udp", 0, m, h.xml, h.res)
    /\ nSent' = nSent + 1
    /\ UNCHANGED <<status, wire, acks, pushSent, envExc, running, pc, listen, file, loaded>>

Next ==
    \/ \E c \in Conns, m \in TcpMessages : ClientSend(c, m)
    \/ \E c \in Conns : TcpReceive(c)
    \/ \E c \in Conns : TcpEof(c)
    \/ \E m \in Datagrams : UdpPacket(m)

Spec == Init /\ [][Next]_vars

(***************************************************************************)
(* process_message by itself: one call on a buffer, with the codec's       *)
(* answer an input.  The codec is external, so the tree it returns for a   *)
(* frame ranges over LongInvokeIdAndPriority values of 0..MaxHexChars hex  *)
(* digits, clean or with blanks, lower case and separators, and over       *)
(* documents with none or two such elements.                               *)
(***************************************************************************)
MaxHexChars == 14

\* C123456789ABCDEF and 400000FF00000000
LongHex == {BytesHex(<<193, 35, 69, 103, 137, 171, 205, 239>>),
            BytesHex(<<64, 0, 0, 255, 0, 0, 0, 0>>)}

InvokeValues ==
    {SubSeq(h, 1, n) : h \in LongHex, n \in 0..MaxHexChars}
    \cup {<<" ", "c", "0", "0", "0", "0", "0", "1", "a", " ">>,
          <<"C", "0", "-", "0", "0", "-", "0", "1">>,
          <<"C", "0", " ", "0", "0", " ", "0", "0", " ", "1", "A">>,
          <<" ">>}

XmlTrees ==
    {DecodeFailed, Decoded(<<>>)}
    \cup {Decoded(<<v>>) : v \in InvokeValues}
    \cup {Decoded(<<BytesHex(<<192, 0, 0, 26>>), v>>) :
              v \in {BytesHex(<<64, 0, 0, 1>>), BytesHex(<<64, 0, 1>>)}}

\* a data notification from another meter to another client address
OtherPushFrame == MeterFrame(33, <<0, 2, 68, 203>>, <<15, 64, 0, 0, 7, 0, 0>>)

Buffers ==
    Datagrams \cup {SubSeq(PushFrame, 1, SplitShort), SubSeq(PushFrame, 1, SplitLong),
                    OtherPushFrame}

InitMessage == Init

ProcessMessage(raw_data, xml, env) ==
    /\ last = NoOp
    /\ last' = Done("message", 0, raw_data, xml, process_message(raw_data, xml, env))
    /\ UNCHANGED <<status, wire, acks, pushSent, envExc, nSent, running, pc, listen, file, loaded>>

NextMessage ==
    \E raw_data \in Buffers, xml \in XmlTrees, env \in Envs :
        ProcessMessage(raw_data, xml, env)

SpecMessage == InitMessage /\ [][NextMessage]_vars

(***************************************************************************)
(* The acknowledgment as a peer reads it:                                  *)
(*   7E A0 len address(5) 13 FCS1(2) E6 E7 00 PDU FCS2(2) 7E               *)
(***************************************************************************)
IsAck == last.kind = "message" /\ last.resp # <<>>

AckLen == last.resp[3]

AckAddress == SubSeq(last.resp, 4, 8)

AckFcs1 == SubSeq(last.resp, 10, 11)

AckPdu == SubSeq(last.resp, 15, Len(last.resp) - 3)

AckFcs2 == SubSeq(last.resp, Len(last.resp) - 2, Len(last.resp) - 1)

\* 0x13 ++ E6 E7 00 ++ PDU body
AckInformation == <<19, 230, 231, 0>> \o AckPdu

\* the cleaned LongInvokeIdAndPriority values of the decoded message that
\* have 8 hex characters or more, in document order
LongValues ==
    SelectSeq([i \in 1..Len(last.xml.lip) |-> CleanHex(last.xml.lip[i])],
              LAMBDA v : Len(v) >= 8)

\* the inbound value the acknowledgment answers
InboundValue == LongValues[Len(LongValues)]

Low3(v) == BytesFromHex(SubSeq(v, Len(v) - 5, Len(v)))

\* C5: a buffer that is no autoconnect announcement and does not start with
\* 0x7E (the empty buffer included), or that starts with 0x7E and has fewer
\* than 10 bytes, gets no response, and neither the codec nor the push
\* callback is called for it.
C5_NoResponseNoDecode ==
    (/\ last.kind = "message"
     /\ \/ /\ ~AutoconnectSearch(DecodeUtf8Replace(last.raw)).found
           /\ (last.raw = <<>> \/ last.raw[1] # 126)
        \/ /\ last.raw # <<>>
           /\ last.raw[1] = 126
           /\ Len(last.raw) < 10)
    => /\ last.resp = <<>>
       /\ ~last.sent
       /\ ~HasOp(last.events, "messageToXml")
       /\ ~HasOp(last.events, "on_dlms_push")

C5_Witness ==
    /\ last.kind = "message"
    /\ last.raw = ShortFrame
    /\ last.resp = <<>>
    /\ last.events = <<>>

\* C6: when a DLMS frame is decoded and the decoded message has no
\* LongInvokeIdAndPriority value of 8 hex characters or more (none at all,
\* or only shorter ones once the non-hex characters are removed), no
\* acknowledgment is produced, no exception leaves process_message (the
\* connection goes on), and the push callback has been called once.
C6_NoInvokeIdNoAck ==
    (/\ last.kind = "message"
     /\ HasOp(last.events, "messageToXml")
     /\ last.xml.ok
     /\ LongValues = <<>>)
    => /\ last.resp = <<>>
       /\ ~last.sent
       /\ ~last.escaped
       /\ CountOp(last.events, "on_dlms_push") = 1
       /\ ~HasOp(last.events, "_generate_response")

C6_Witness ==
    /\ last.kind = "message"
    /\ last.xml.ok
    /\ Len(last.xml.lip) = 1
    /\ Len(CleanHex(last.xml.lip[1])) = 7
    /\ HasOp(last.events, "on_dlms_push")
    /\ last.resp = <<>>

\* C7: every acknowledgment starts with 7E A0 <length>, ends with FCS2 (two
\* bytes, high byte first) and 7E, and its length byte is len(addressField)
\* + len(informationField) + 6, the information field being 0x13, E6 E7 00
\* and the PDU body, without the FCS1 that follows the 0x13 on the wire.
C7_AckFraming ==
    IsAck =>
        LET f == last.resp
            address_field == AddressField(last.raw)
            fcs2 == calculate_fcs(SubSeq(f, 2, Len(f) - 3))
        IN  /\ SubSeq(f, 1, 3) = <<126, 160, AckLen>>
            /\ AckLen = Len(address_field) + Len(AckInformation) + 6
            /\ SubSeq(f, 4, Len(f) - 3) =
                 address_field \o <<19>> \o AckFcs1 \o <<230, 231, 0>> \o AckPdu
            /\ AckPdu[1] = 16
            /\ SubSeq(f, Len(f) - 2, Len(f)) = <<fcs2 \div 256, fcs2 % 256, 126>>

C7_Witness ==
    /\ IsAck
    /\ last.raw = PushFrame
    /\ SubSeq(last.resp, 1, 3) = <<126, 160, 34>>
    /\ last.resp[Len(last.resp)] = 126

\* C8 as stated: in every acknowledgment the length byte is the number of
\* bytes of addressField + information + fcs, whether information is read
\* as 0x13, E6 E7 00 and the PDU body or as every byte between the address
\* field and the trailing checksum.
C8_LengthCountsAddrInfoFcs ==
    IsAck =>
        \/ AckLen = Len(AckAddress \o AckInformation \o AckFcs2)
        \/ AckLen = Len(AckAddress \o <<19>> \o AckFcs1 \o <<230, 231, 0>> \o AckPdu
                        \o AckFcs2)

\* C8 amended: the length byte is the number of bytes of addressField +
\* information + fcs plus 4: the control byte, the length byte and the two
\* bytes of FCS1 are counted as well (information being 0x13, E6 E7 00 and
\* the PDU body).
C8_LengthCountsHeaderToo ==
    IsAck =>
        /\ AckAddress = AddressField(last.raw)
        /\ AckLen = Len(AckAddress \o AckInformation \o AckFcs2) + 4
        /\ AckLen = Len(<<160, AckLen>>) + Len(AckAddress) + Len(AckFcs1)
                      + Len(AckInformation) + Len(AckFcs2)

C8_Witness ==
    /\ IsAck
    /\ last.raw = EventFrame
    /\ AckLen = 34
    /\ Len(AckAddress \o AckInformation \o AckFcs2) = 30

\* C9: in every acknowledgment FCS2 is the FCS of the bytes between the two
\* flags without FCS2 itself, which are A0, length, addressField, 0x13,
\* FCS1, E6 E7 00 and the PDU body in that order, and FCS1 is the FCS of
\* A0, length, addressField, 0x13; both are stored high byte first.
C9_Checksums ==
    IsAck =>
        LET f == last.resp
            header == <<160, AckLen>> \o AddressField(last.raw) \o <<19>>
            fcs1 == calculate_fcs(header)
            covered == header \o <<fcs1 \div 256, fcs1 % 256>> \o <<230, 231, 0>> \o AckPdu
            fcs2 == calculate_fcs(covered)
        IN  /\ f[1] = 126 /\ f[Len(f)] = 126
            /\ SubSeq(f, 2, Len(f) - 3) = covered
            /\ AckFcs1 = <<fcs1 \div 256, fcs1 % 256>>
            /\ AckFcs2 = <<fcs2 \div 256, fcs2 % 256>>

C9_Witness ==
    /\ IsAck
    /\ last.raw = AutoconnectInFrame
    /\ AckFcs1 = ToBytesBig2(CountFCS16(SubSeq(last.resp, 2, 9)))
    /\ AckFcs2 = ToBytesBig2(CountFCS16(SubSeq(last.resp, 2, Len(last.resp) - 3)))

Served == last.kind \in {"tcp", "udp"}

IsAnnouncement(raw_data) == AutoconnectSearch(DecodeUtf8Replace(raw_data)).found

\* C1: on a connection where every byte written has been received and
\* nothing raised, the acknowledgments sent are as many as the frames the
\* peer wrote that are acknowledged when processed (one per frame, however
\* recv cut the stream into buffers).
C1_OneAckPerFrame ==
    \A c \in Conns :
        (wire[c] = <<>> /\ ~envExc[c]) => acks[c] = pushSent[c]

\* C2: the push callback is called once for a buffer whose frame the codec
\* decoded and not at all for any other buffer, it is called before the
\* response is generated, and it is never called for a buffer that is an
\* autoconnect announcement, does not start with 0x7E, has fewer than 10
\* bytes or fails to decode.
C2_PushOncePerDecodedFrame ==
    Served =>
        LET decoded == HasOp(last.events, "messageToXml") /\ last.xml.ok
            ev == last.events
        IN  /\ CountOp(ev, "on_dlms_push") = (IF decoded THEN 1 ELSE 0)
            /\ \A i, j \in 1..Len(ev) :
                 (ev[i].op = "on_dlms_push" /\ ev[j].op = "_generate_response") => i < j
            /\ (\/ IsAnnouncement(last.raw)
                \/ last.raw = <<>>
                \/ last.raw[1] # 126
                \/ Len(last.raw) < 10
                \/ ~last.xml.ok) => ~HasOp(ev, "on_dlms_push")

\* C3: whenever something raises while a buffer received on a TCP
\* connection is processed, the exception does not leave process_message,
\* nothing is sent back, and the connection is still open afterwards.
C3_ExceptionsStayInside ==
    (last.kind = "tcp" /\ last.exc # {}) =>
        /\ ~last.escaped
        /\ last.resp = <<>>
        /\ ~last.sent
        /\ status[last.conn] = "open"

\* C4: for every buffer whose text matches the autoconnect pattern the
\* autoconnect callback is called once, with the serial number, the ip and
\* the port as an integer, nothing is sent back, and neither the codec nor
\* the push callback is called, also when the buffer starts with 0x7E.
C4_AnnouncementOnly ==
    (Served /\ IsAnnouncement(last.raw)) =>
        LET m == AutoconnectSearch(DecodeUtf8Replace(last.raw))
        IN  /\ last.events =
                 <<[op |-> "on_autoconnect", sn |-> m.sn, ip |-> m.ip,
                    port |-> DecimalValue(m.port_str)]>>
            /\ last.resp = <<>>
            /\ ~last.sent

\* the date and time bytes the response generator writes for now
NowBytes(now) ==
    <<(now.year \div 256) % 256, now.year % 256, now.month, now.day, 255,
      now.hour, now.minute, now.second>>

\* C11 as stated: in the PDU body of every acknowledgment the tag 0x0C is
\* followed by exactly 12 bytes, so that the PDU body has 1 + 4 + 1 + 12 =
\* 18 bytes.
C11_TwelveBytesAfterTag ==
    (IsAck /\ Len(InboundValue) = 8) =>
        /\ AckPdu[6] = 12
        /\ Len(AckPdu) - 6 = 12
        /\ Len(AckPdu) = 18

\* C11 amended: in the PDU body of every acknowledgment the tag 0x0C is
\* followed by exactly 13 bytes: year_hi year_lo month day 0xFF hour minute
\* second of the current time, then 0xFF 0xFF 0x4C 0x00 0x00; with the 4
\* invoke-id bytes of an 8-character value the PDU body has 1 + 4 + 1 + 13
\* = 19 bytes.
C11_ThirteenBytesAfterTag ==
    IsAck =>
        /\ AckPdu[Len(AckPdu) - 13] = 12
        /\ \E now \in Nows :
             SubSeq(AckPdu, Len(AckPdu) - 12, Len(AckPdu))
               = NowBytes(now) \o <<255, 255, 76, 0, 0>>
        /\ Len(InboundValue) = 8 => (AckPdu[6] = 12 /\ Len(AckPdu) = 19)

C11_Witness ==
    /\ IsAck
    /\ Len(InboundValue) = 8
    /\ Len(AckPdu) = 19
    /\ SubSeq(AckPdu, 6, 8) = <<12, 7, 233>>

\* C12: for every acknowledged buffer of at least 10 bytes the five bytes
\* after the length byte of the acknowledgment are the bytes 4..7 of the
\* buffer (the meter address) followed by its byte 3 (the client address),
\* counting from 0.
C12_AddressSwapped ==
    (IsAck /\ Len(last.raw) >= 10) =>
        /\ Len(AckAddress) = 5
        /\ \A k \in 1..4 : last.resp[3 + k] = last.raw[4 + k]
        /\ last.resp[8] = last.raw[4]

C12_Witness ==
    /\ IsAck
    /\ last.raw = OtherPushFrame
    /\ AckAddress = <<0, 2, 68, 203, 33>>

(***************************************************************************)
(* calculate_fcs by itself: one call on a byte string of up to MaxFcsLen   *)
(* bytes; last holds the call and what it returned.                        *)
(***************************************************************************)
MaxFcsLen == 3

FcsBytes == {0, 1, 126, 160, 255}

RECURSIVE ByteStrings(_)
ByteStrings(n) ==
    IF n = 0 THEN {<<>>}
    ELSE ByteStrings(n - 1)
         \cup {Append(d, b) : d \in {x \in ByteStrings(n - 1) : Len(x) = n - 1},
                              b \in FcsBytes}

InitFcs == Init

CalculateFcs(data) ==
    /\ last = NoOp
    /\ last' = [kind |-> "calculate_fcs", data |-> data, ret |-> calculate_fcs(data)]
    /\ UNCHANGED <<status, wire, acks, pushSent, envExc, nSent, running, pc, listen, file, loaded>>

NextFcs == \E data \in ByteStrings(MaxFcsLen) : CalculateFcs(data)

SpecFcs == InitFcs /\ [][NextFcs]_vars

\* C13: for every byte string the routine written out in calculate_fcs
\* (register 0xFFFF, each byte XORed into the high byte, 8 left shifts with
\* polynomial 0x1021 masked to 16 bits) gives the value calculate_fcs
\* returns through the external CRC-16/X.25 primitive.
C13_FcsPathsAgree ==
    last.kind = "calculate_fcs" =>
        HandRolledFcs(last.data, 1, 65535) = last.ret

(***************************************************************************)
(* DLMS_Parser.py field decoders.  Strings are sequences of one-character  *)
(* strings, as in the hex section above.                                   *)
(***************************************************************************)
DecDigits == <<"0", "1", "2", "3", "4", "5", "6", "7", "8", "9">>

\* str(n) for n >= 0
RECURSIVE DecimalStr(_)
DecimalStr(n) ==
    IF n < 10 THEN <<DecDigits[n + 1]>>
    ELSE DecimalStr(n \div 10) \o <<DecDigits[(n % 10) + 1]>>

\* str(n)
IntStr(n) == IF n < 0 THEN <<"-">> \o DecimalStr(0 - n) ELSE DecimalStr(n)

\* f"{n:0wd}" for n >= 0: zeros on the left up to width w, never truncated
RECURSIVE ZeroPad(_, _)
ZeroPad(s, w) == IF Len(s) >= w THEN s ELSE ZeroPad(<<"0">> \o s, w)

IsHexDigit(c) == IsHexChar(Upper(c))

HexDigitVal(c) == HexVal(Upper(c))

\* int(p, 16) of a two-character slice p: hex digits in either case, one
\* blank on either side stripped, one leading sign; anything else raises
\* ValueError
IntHexRaises(p) ==
    ~ \/ IsHexDigit(p[1]) /\ IsHexDigit(p[2])
      \/ p[1] \in {" ", "+", "-"} /\ IsHexDigit(p[2])
      \/ IsHexDigit(p[1]) /\ p[2] = " "

IntHex(p) ==
    IF IsHexDigit(p[1]) /\ IsHexDigit(p[2])
    THEN 16 * HexDigitVal(p[1]) + HexDigitVal(p[2])
    ELSE IF p[2] = " " THEN HexDigitVal(p[1])
    ELSE IF p[1] = "-" THEN 0 - HexDigitVal(p[2])
    ELSE HexDigitVal(p[2])

\* [int(obis_hex[i:i + 2], 16) for i in range(0, 12, 2)]
ObisPartsSwapped(obis_hex) ==
    [k \in 1..6 |-> IntHex(SubSeq(obis_hex, 13 - 2 * k, 14 - 2 * k))]

ObisParts(obis_hex) ==
    [k \in 1..6 |-> IntHex(SubSeq(obis_hex, 2 * k - 1, 2 * k))]

\* ".".join(map(str, parts))
RECURSIVE JoinDots(_)
JoinDots(parts) ==
    IF Len(parts) = 1 THEN IntStr(parts[1])
    ELSE IntStr(Head(parts)) \o <<".">> \o JoinDots(Tail(parts))

Returned(v) == [raises |-> FALSE, ret |-> v]

Raised == [raises |-> TRUE, ret |-> <<>>]

hex_to_obis(obis_hex) ==
    IF Len(obis_hex) # 12 THEN Returned(obis_hex)
    ELSE IF \E k \in 1..6 : IntHexRaises(SubSeq(obis_hex, 2 * k - 1, 2 * k))
    THEN Raised
    ELSE Returned(JoinDots(ObisParts(obis_hex)))

\* binascii.unhexlify raises on an odd count and on a non-hex character
UnhexlifyRaises(s) ==
    Len(s) % 2 = 1 \/ \E i \in 1..Len(s) : ~IsHexDigit(s[i])

Unhexlify(s) == BytesFromHex(UpperStr(s))

None == [some |-> FALSE, text |-> <<>>]

Some(text) == [some |-> TRUE, text |-> text]

DtYear(data) == data[1] * 256 + data[2]

DtFieldZero(data, k) == IF Len(data) > k THEN data[k + 1] ELSE 0

\* data[k] if len(data) > k else 0xFF  (k counts from 0)
DtField(data, k) == IF Len(data) > k THEN data[k + 1] ELSE 255

has_date(data) == DtYear(data) # 65535 /\ data[3] # 255 /\ data[4] # 255

has_time(data) ==
    DtField(data, 5) # 255 /\ DtField(data, 6) # 255 /\ DtField(data, 7) # 255

DatePart(data) ==
    ZeroPad(DecimalStr(DtYear(data)), 4) \o <<"-">>
    \o ZeroPad(DecimalStr(data[3]), 2) \o <<"-">>
    \o ZeroPad(DecimalStr(data[4]), 2)

TimePart(data) ==
    ZeroPad(DecimalStr(DtField(data, 5)), 2) \o <<":">>
    \o ZeroPad(DecimalStr(DtField(data, 6)), 2) \o <<":">>
    \o ZeroPad(DecimalStr(DtField(data, 7)), 2)

\* " ".join(parts)
JoinParts(data) ==
    IF has_date(data) /\ has_time(data)
    THEN DatePart(data) \o <<" ">> \o TimePart(data)
    ELSE IF has_date(data) THEN DatePart(data) ELSE TimePart(data)

DevRaw(data) == data[10] * 256 + data[11]

DevUnsigned(dev_raw) == dev_raw

DevSigned(dev_raw) == IF dev_raw > 32767 THEN dev_raw - 65536 ELSE dev_raw

Magnitude(v) == IF v < 0 THEN 0 - v ELSE v

UtcSuffix(dev) ==
    <<" ", "U", "T", "C", IF dev >= 0 THEN "+" ELSE "-">>
    \o ZeroPad(DecimalStr(Magnitude(dev) \div 60), 2)
    \o (IF Magnitude(dev) % 60 = 0 THEN <<>>
        ELSE <<":">> \o ZeroPad(DecimalStr(Magnitude(dev) % 60), 2))

DeviationSuffix(data) ==
    IF Len(data) >= 11 /\ DevRaw(data) # 32768 /\ DevSigned(DevRaw(data)) # 0
    THEN UtcSuffix(DevSigned(DevRaw(data)))
    ELSE <<>>

DecodeDateTimeBytes(data) ==
    IF Len(data) < 5 THEN None
    ELSE IF ~(has_date(data) \/ has_time(data)) THEN None
    ELSE Some(JoinParts(data) \o DeviationSuffix(data))

try_decode_dlms_datetime(hex_str) ==
    IF Len(hex_str) < 10 \/ Len(hex_str) > 24 \/ Len(hex_str) % 2 # 0 THEN None
    ELSE IF UnhexlifyRaises(hex_str) THEN None
    ELSE DecodeDateTimeBytes(Unhexlify(hex_str))

get_current_dlms_datetime_hex(now) ==
    BytesHex(ToBytesBig2(now.year)
             \o <<now.month, now.day, 255, now.hour, now.minute, now.second, 0>>
             \o ToBytesBig2(65535) \o <<76, 0>>)

(***************************************************************************)
(* The field decoders by themselves: one call of hex_to_obis,              *)
(* try_decode_dlms_datetime or get_current_dlms_datetime_hex; last holds   *)
(* the call and its outcome.                                               *)
(***************************************************************************)
MaxObisChars == 14

MaxDtBytes == 13

ObisPairs == {<<"0", "0">>, <<"F", "F">>}

ObisSample == BytesHex(<<0, 0, 25, 9, 0, 255>>)

ObisLower == <<"0", "1", "0", "0", "0", "1", "0", "8", "0", "0", "f", "f">>

ObisNotHex == <<"0", "0", "0", "0", "1", "9", "0", "9", "0", "0", "z", "z">>

ObisSigned == <<" ", "1", "+", "2", "-", "3", "4", " ", "0", "0", "F", "F">>

ObisStrings ==
    {f[1] \o f[2] \o f[3] \o f[4] \o f[5] \o f[6] : f \in [1..6 -> ObisPairs]}
    \cup {SubSeq(ObisSample \o <<"0", "0">>, 1, n) : n \in 0..MaxObisChars}
    \cup {ObisLower, ObisNotHex, ObisSigned, SubSeq(ObisNotHex, 3, 12)}

DtDeviations ==
    {<<128, 0>>, <<0, 0>>, <<255, 76>>, <<0, 180>>, <<1, 74>>, <<255, 255>>}

DtByteStrings ==
    {<<y[1], y[2], m, d, 255, h, 33, s, 0, dev[1], dev[2], 0, 0>> :
        y \in {<<7, 234>>, <<0, 1>>, <<255, 255>>}, m \in {1, 255},
        d \in {13, 255}, h \in {14, 255}, s \in {20, 255}, dev \in DtDeviations}

DtLower == <<"0", "7", "e", "a", "0", "1", "0", "d", "f", "f", "0", "e">>

DtNotHex == <<"0", "7", "E", "A", "0", "1", "0", "D", "F", "F", "z", "z">>

DtHexStrings ==
    {SubSeq(BytesHex(b), 1, n) : b \in DtByteStrings, n \in 8..(2 * MaxDtBytes)}
    \cup {DtLower, DtNotHex}

InitParser == Init

HexToObis(obis_hex) ==
    /\ last = NoOp
    /\ last' = [kind |-> "hex_to_obis", arg |-> obis_hex,
                out |-> hex_to_obis(obis_hex)]
    /\ UNCHANGED <<status, wire, acks, pushSent, envExc, nSent, running, pc, listen, file, loaded>>

TryDecodeDlmsDatetime(hex_str) ==
    /\ last = NoOp
    /\ last' = [kind |-> "try_decode_dlms_datetime", arg |-> hex_str,
                out |-> try_decode_dlms_datetime(hex_str)]
    /\ UNCHANGED <<status, wire, acks, pushSent, envExc, nSent, running, pc, listen, file, loaded>>

GetCurrentDlmsDatetimeHex(now) ==
    /\ last = NoOp
    /\ last' = [kind |-> "get_current_dlms_datetime_hex", arg |-> now,
                out |-> get_current_dlms_datetime_hex(now)]
    /\ UNCHANGED <<status, wire, acks, pushSent, envExc, nSent, running, pc, listen, file, loaded>>

NextParser ==
    \/ \E obis_hex \in ObisStrings : HexToObis(obis_hex)
    \/ \E hex_str \in DtHexStrings : TryDecodeDlmsDatetime(hex_str)
    \/ \E now \in Nows : GetCurrentDlmsDatetimeHex(now)

SpecParser == InitParser /\ [][NextParser]_vars

(***************************************************************************)
(* Reading the outcomes of the field decoders.                             *)
(***************************************************************************)
\* the fields of a string between the occurrences of sep
RECURSIVE Fields(_, _, _)
Fields(s, sep, cur) ==
    IF s = <<>> THEN <<cur>>
    ELSE IF Head(s) = sep THEN <<cur>> \o Fields(Tail(s), sep, <<>>)
    ELSE Fields(Tail(s), sep, Append(cur, Head(s)))

\* the fields of a dotted string
DotFields(s, cur) == Fields(s, ".", cur)

IsDecimal(s) ==
    /\ s # <<>>
    /\ \A i \in 1..Len(s) : \E v \in 1..10 : DecDigits[v] = s[i]
    /\ Len(s) > 1 => s[1] # "0"

RECURSIVE DecimalOf(_)
DecimalOf(s) ==
    IF s = <<>> THEN 0
    ELSE 10 * DecimalOf(SubSeq(s, 1, Len(s) - 1))
         + (CHOOSE v \in 0..9 : DecDigits[v + 1] = s[Len(s)])

IsHexString(s) == \A i \in 1..Len(s) : IsHexDigit(s[i])

\* the k-th byte (from 1) a hex string writes
HexByteAt(s, k) == 16 * HexDigitVal(s[2 * k - 1]) + HexDigitVal(s[2 * k])

\* C14: hex_to_obis of a 12-character hex string is six decimal numbers
\* joined by dots, the k-th being the value 0..255 of the k-th byte of the
\* string; hex_to_obis of a string of any other length is the string itself.
C14_ObisDotted ==
    last.kind = "hex_to_obis" =>
        /\ (Len(last.arg) = 12 /\ IsHexString(last.arg)) =>
              /\ ~last.out.raises
              /\ Len(DotFields(last.out.ret, <<>>)) = 6
              /\ \A k \in 1..6 :
                    /\ IsDecimal(DotFields(last.out.ret, <<>>)[k])
                    /\ DecimalOf(DotFields(last.out.ret, <<>>)[k])
                          = HexByteAt(last.arg, k)
                    /\ HexByteAt(last.arg, k) \in 0..255
        /\ Len(last.arg) # 12 => (~last.out.raises /\ last.out.ret = last.arg)

C14_Witness ==
    /\ last.kind = "hex_to_obis"
    /\ last.arg = ObisSample
    /\ last.out.ret = <<"0", ".", "0", ".", "2", "5", ".", "9", ".", "0", ".",
                        "2", "5", "5">>

IsDigits(s) ==
    s # <<>> /\ \A i \in 1..Len(s) : \E v \in 1..10 : DecDigits[v] = s[i]

\* a token of three runs of digits joined by sep, holding a, b and c
IsTriple(tok, sep, a, b, c) ==
    /\ Len(Fields(tok, sep, <<>>)) = 3
    /\ \A k \in 1..3 : IsDigits(Fields(tok, sep, <<>>)[k])
    /\ DecimalOf(Fields(tok, sep, <<>>)[1]) = a
    /\ DecimalOf(Fields(tok, sep, <<>>)[2]) = b
    /\ DecimalOf(Fields(tok, sep, <<>>)[3]) = c

LooksTriple(tok, sep) ==
    /\ Len(Fields(tok, sep, <<>>)) = 3
    /\ \A k \in 1..3 : IsDigits(Fields(tok, sep, <<>>)[k])

\* what a well-formed hex string says: its date is fully specified, its
\* time is fully specified
DateSpecified(s) ==
    /\ 256 * HexByteAt(s, 1) + HexByteAt(s, 2) # 65535
    /\ HexByteAt(s, 3) # 255
    /\ HexByteAt(s, 4) # 255

TimeSpecified(s) ==
    /\ Len(s) >= 16
    /\ \A k \in 6..8 : HexByteAt(s, k) # 255

WellFormedDt(s) ==
    Len(s) % 2 = 0 /\ Len(s) >= 10 /\ Len(s) <= 24 /\ IsHexString(s)

\* the blank-separated tokens of the returned text
DtTokens == Fields(last.out.text, " ", <<>>)

\* C15: try_decode_dlms_datetime returns nothing for a string of odd
\* length, of fewer than 10 or more than 24 characters, and for one where
\* neither the date nor the time is fully specified; otherwise the text
\* starts with the date YYYY-MM-DD exactly when the date is fully specified
\* and carries the time hh:mm:ss exactly when the time is fully specified,
\* so five bytes give a date alone.
C15_DateAndTimeIndependent ==
    last.kind = "try_decode_dlms_datetime" =>
        IF ~WellFormedDt(last.arg) THEN last.out = None
        ELSE IF ~DateSpecified(last.arg) /\ ~TimeSpecified(last.arg)
        THEN last.out = None
        ELSE /\ last.out.some
             /\ IF DateSpecified(last.arg)
                THEN IsTriple(DtTokens[1], "-",
                              256 * HexByteAt(last.arg, 1) + HexByteAt(last.arg, 2),
                              HexByteAt(last.arg, 3), HexByteAt(last.arg, 4))
                ELSE \A i \in 1..Len(DtTokens) : ~LooksTriple(DtTokens[i], "-")
             /\ IF TimeSpecified(last.arg)
                THEN IsTriple(DtTokens[IF DateSpecified(last.arg) THEN 2 ELSE 1], ":",
                              HexByteAt(last.arg, 6), HexByteAt(last.arg, 7),
                              HexByteAt(last.arg, 8))
                ELSE \A i \in 1..Len(DtTokens) : ~LooksTriple(DtTokens[i], ":")
             /\ Len(last.arg) = 10 =>
                    (Len(DtTokens) = 1 /\ LooksTriple(DtTokens[1], "-"))

C15_Witness ==
    /\ last.kind = "try_decode_dlms_datetime"
    /\ last.arg = BytesHex(<<7, 234, 1, 13, 255>>)
    /\ last.out = Some(<<"2", "0", "2", "6", "-", "0", "1", "-", "1", "3">>)

\* the last token of the returned text, and whether it is a UTC offset
DtLastToken == DtTokens[Len(DtTokens)]

HasUtcSuffix ==
    Len(DtLastToken) >= 4 /\ SubSeq(DtLastToken, 1, 3) = <<"U", "T", "C">>

\* the 16 bits at bytes 9..10 (from 0) of a hex string, and their reading
\* as a two's-complement number
DeviationBits(s) == 256 * HexByteAt(s, 10) + HexByteAt(s, 11)

TwosComplement16(v) == IF v >= 32768 THEN v - 65536 ELSE v

\* the token is UTC, the sign of minutes, two or more digits of hours and,
\* only when the minutes within the hour are not zero, a colon and they
IsUtcOffset(tok, minutes) ==
    /\ tok[4] = (IF minutes > 0 THEN "+" ELSE "-")
    /\ Len(Fields(SubSeq(tok, 5, Len(tok)), ":", <<>>))
          = (IF Magnitude(minutes) % 60 = 0 THEN 1 ELSE 2)
    /\ \A k \in 1..Len(Fields(SubSeq(tok, 5, Len(tok)), ":", <<>>)) :
          /\ IsDigits(Fields(SubSeq(tok, 5, Len(tok)), ":", <<>>)[k])
          /\ Len(Fields(SubSeq(tok, 5, Len(tok)), ":", <<>>)[k]) >= 2
          /\ DecimalOf(Fields(SubSeq(tok, 5, Len(tok)), ":", <<>>)[k])
                = (IF k = 1 THEN Magnitude(minutes) \div 60
                   ELSE Magnitude(minutes) % 60)

\* C16: the text try_decode_dlms_datetime returns ends in a UTC offset
\* exactly when the input has at least 11 bytes and the 16 bits at bytes
\* 9..10 are neither 0x8000 nor 0; the offset is those bits read as signed
\* minutes, with '+' for positive and '-' for negative values and the
\* minutes shown only when not zero; 0xFF4C gives ' UTC-03'.
C16_UtcSuffix ==
    (last.kind = "try_decode_dlms_datetime" /\ last.out.some) =>
        /\ HasUtcSuffix <=> /\ Len(last.arg) >= 22
                            /\ DeviationBits(last.arg) \notin {32768, 0}
        /\ HasUtcSuffix =>
              IsUtcOffset(DtLastToken, TwosComplement16(DeviationBits(last.arg)))
        /\ (Len(last.arg) >= 22 /\ DeviationBits(last.arg) = 65356) =>
              DtLastToken = <<"U", "T", "C", "-", "0", "3">>

C16_Witness ==
    /\ last.kind = "try_decode_dlms_datetime"
    /\ last.arg = BytesHex(<<7, 234, 1, 13, 255, 14, 33, 20, 0, 255, 76, 0>>)
    /\ last.out = Some(<<"2", "0", "2", "6", "-", "0", "1", "-", "1", "3", " ",
                         "1", "4", ":", "3", "3", ":", "2", "0", " ",
                         "U", "T", "C", "-", "0", "3">>)

\* C17: get_current_dlms_datetime_hex writes 24 hex characters, the 12
\* bytes of a DLMS date-time with day of week 0xFF, hundredths 0 and
\* deviation -180 minutes, and try_decode_dlms_datetime reads them back as
\* the same date and time followed by UTC-03.
C17_CurrentTimeRoundTrip ==
    last.kind = "get_current_dlms_datetime_hex" =>
        /\ Len(last.out) = 24
        /\ HexByteAt(last.out, 5) = 255
        /\ HexByteAt(last.out, 9) = 0
        /\ TwosComplement16(DeviationBits(last.out)) = 0 - 180
        /\ try_decode_dlms_datetime(last.out).some
        /\ Fields(try_decode_dlms_datetime(last.out).text, " ", <<>>)
              = << ZeroPad(DecimalStr(last.arg.year), 4) \o <<"-">>
                     \o ZeroPad(DecimalStr(last.arg.month), 2) \o <<"-">>
                     \o ZeroPad(DecimalStr(last.arg.day), 2),
                   ZeroPad(DecimalStr(last.arg.hour), 2) \o <<":">>
                     \o ZeroPad(DecimalStr(last.arg.minute), 2) \o <<":">>
                     \o ZeroPad(DecimalStr(last.arg.second), 2),
                   <<"U", "T", "C", "-", "0", "3">> >>

(***************************************************************************)
(* Push_Parser.py.  The XML text is kept as what ET.fromstring makes of    *)
(* it: whether it parses and, if so, the element tree.  An element is its  *)
(* tag, its attributes and its children; an element within a tree is       *)
(* named by its path, the child positions from the root down, which        *)
(* stands for the identity of the element object.                          *)
(***************************************************************************)
NoAttrs == [n \in {} |-> <<>>]

El(tag, attrs, kids) == [tag |-> tag, attrs |-> attrs, kids |-> kids]

Parsed(root) == [parses |-> TRUE, root |-> root]

ParseError == [parses |-> FALSE, root |-> El("", NoAttrs, <<>>)]

\* elem.get(name, default)
Get(elem, name, default) ==
    IF name \in DOMAIN elem.attrs THEN elem.attrs[name] ELSE default

RECURSIVE At(_, _)
At(root, path) ==
    IF path = <<>> THEN root ELSE At(root.kids[Head(path)], Tail(path))

\* elem.iter(): the element, then its descendants in document order
RECURSIVE IterPaths(_, _)
RECURSIVE IterKids(_, _, _)
IterPaths(elem, path) == <<path>> \o IterKids(elem.kids, path, 1)

IterKids(kids, path, k) ==
    IF k > Len(kids) THEN <<>>
    ELSE IterPaths(kids[k], Append(path, k)) \o IterKids(kids, path, k + 1)

\* those of the paths whose element has the tag
RECURSIVE WithTag(_, _, _)
WithTag(root, paths, tag) ==
    IF paths = <<>> THEN <<>>
    ELSE (IF At(root, Head(paths)).tag = tag THEN <<Head(paths)>> ELSE <<>>)
         \o WithTag(root, Tail(paths), tag)

\* list(elem) as paths
ChildPaths(root, path) ==
    [k \in 1..Len(At(root, path).kids) |-> Append(path, k)]

\* the step /tag of a path expression: the children with that tag of each
\* of the elements selected so far
RECURSIVE ChildrenWithTag(_, _, _)
ChildrenWithTag(root, paths, tag) ==
    IF paths = <<>> THEN <<>>
    ELSE WithTag(root, ChildPaths(root, Head(paths)), tag)
         \o ChildrenWithTag(root, Tail(paths), tag)

\* the step .//tag: the descendants of the root with that tag
Descendants(root, tag) == WithTag(root, Tail(IterPaths(root, <<>>)), tag)

\* root.find(".//NotificationBody/DataValue"): all matches, find takes the first
FindDataValue(root) ==
    ChildrenWithTag(root, Descendants(root, "NotificationBody"), "DataValue")

FirstChildIsOctet(structure) ==
    structure.kids # <<>> /\ structure.kids[1].tag = "OctetString"

\* children and first.tag == "OctetString" and len(first.get("Value", "")) != 12
FirstChildIsName(structure) ==
    /\ structure.kids # <<>>
    /\ structure.kids[1].tag = "OctetString"
    /\ Len(Get(structure.kids[1], "Value", <<>>)) # 12

\* the first Structure in data_value.iter()
StructuresUnder(root, data_value) ==
    WithTag(root, IterPaths(At(root, data_value), data_value), "Structure")

NewStyleUnder(root, structures) ==
    IF structures = <<>> THEN FALSE
    ELSE FirstChildIsName(At(root, Head(structures)))

NewStyleIn(root, data_values) ==
    IF data_values = <<>> THEN FALSE
    ELSE NewStyleUnder(root, StructuresUnder(root, Head(data_values)))

is_new_style_push(xml) ==
    IF ~xml.parses THEN FALSE ELSE NewStyleIn(xml.root, FindDataValue(xml.root))

\* int(s, 16) for the strings the translator writes in Value attributes:
\* hex digits in either case; the empty string and any other character
\* raise ValueError
IntBase16Raises(s) == s = <<>> \/ ~IsHexString(s)

RECURSIVE HexNumber(_)
HexNumber(s) ==
    IF s = <<>> THEN 0
    ELSE 16 * HexNumber(SubSeq(s, 1, Len(s) - 1)) + HexDigitVal(s[Len(s)])

NoId == [known |-> FALSE, id |-> 0]

Id(v) == [known |-> TRUE, id |-> v]

\* clean[2:] read as a number when hex_val is not empty and len(clean) >= 8
InvokeIdOfClean(hex_val, clean) ==
    IF hex_val # <<>> /\ Len(clean) >= 8
    THEN Id(HexNumber(SubSeq(clean, 3, Len(clean))))
    ELSE NoId

InvokeIdAt(root, long_invokes) ==
    IF long_invokes = <<>> THEN NoId
    ELSE InvokeIdOfClean(Get(At(root, Head(long_invokes)), "Value", <<>>),
                         CleanHex(Get(At(root, Head(long_invokes)), "Value", <<>>)))

\* root.find(".//LongInvokeIdAndPriority") and what follows it
PushInvokeId(root) == InvokeIdAt(root, Descendants(root, "LongInvokeIdAndPriority"))

ObisRaises(hex_val) ==
    \E k \in 1..6 : IntHexRaises(SubSeq(hex_val, 2 * k - 1, 2 * k))

\* bytes.fromhex(hex_val).decode('ascii') raises on an odd count, on a
\* character that is no hex digit and on a byte above 127
AsciiRaises(hex_val) ==
    \/ UnhexlifyRaises(hex_val)
    \/ \E k \in 1..(Len(hex_val) \div 2) : HexByteAt(hex_val, k) > 127

\* the decoded text, as its character codes
AsciiText(hex_val) == Unhexlify(hex_val)

OctetValue(hex_val) ==
    [type |-> "OctetString", value |-> hex_val]
    @@ (IF Len(hex_val) = 12 /\ ~ObisRaises(hex_val)
        THEN [obis |-> JoinDots(ObisParts(hex_val))] ELSE NoAttrs)
    @@ (IF ~AsciiRaises(hex_val) THEN [ascii |-> AsciiText(hex_val)] ELSE NoAttrs)

UnsignedValue(tag, hex_val) ==
    [type |-> tag, value |-> hex_val]
    @@ (IF ~IntBase16Raises(hex_val)
        THEN [decimal |-> DecimalStr(HexNumber(hex_val))] ELSE NoAttrs)

Int8Value(hex_val) ==
    [type |-> "Int8", value |-> hex_val]
    @@ (IF ~IntBase16Raises(hex_val)
        THEN [decimal |-> IntStr(IF HexNumber(hex_val) > 127
                                 THEN HexNumber(hex_val) - 256
                                 ELSE HexNumber(hex_val))]
        ELSE NoAttrs)

RECURSIVE parse_xml_element_value(_)
parse_xml_element_value(elem) ==
    CASE elem.tag = "Enum" ->
            [type |-> "Enum", value |-> Get(elem, "Value", <<>>)]
      [] elem.tag = "OctetString" -> OctetValue(Get(elem, "Value", <<>>))
      [] elem.tag \in {"UInt32", "UInt16", "UInt8"} ->
            UnsignedValue(elem.tag, Get(elem, "Value", <<>>))
      [] elem.tag = "Int8" -> Int8Value(Get(elem, "Value", <<>>))
      [] elem.tag = "Structure" ->
            [type |-> "Structure", qty |-> Get(elem, "Qty", <<"0">>),
             fields |-> [k \in 1..Len(elem.kids) |->
                            parse_xml_element_value(elem.kids[k])]]
      [] elem.tag = "Array" ->
            [type |-> "Array", qty |-> Get(elem, "Qty", <<"0">>),
             items |-> [k \in 1..Len(elem.kids) |->
                           parse_xml_element_value(elem.kids[k])]]
      [] OTHER -> [type |-> elem.tag, value |-> <<"[", elem.tag, "]">>]

\* root.find(".//DataValue/Structure/Array"): all matches, find takes the first
FindObisArray(root) ==
    ChildrenWithTag(root,
        ChildrenWithTag(root, Descendants(root, "DataValue"), "Structure"),
        "Array")

HasChild(elem, tag) == \E j \in 1..Len(elem.kids) : elem.kids[j].tag = tag

\* elem.find(tag): the first child with the tag
FirstChild(elem, tag) ==
    elem.kids[CHOOSE j \in 1..Len(elem.kids) :
                 /\ elem.kids[j].tag = tag
                 /\ \A i \in 1..(j - 1) : elem.kids[i].tag # tag]

ObisDot(hex_val) ==
    IF Len(hex_val) = 12 /\ ~ObisRaises(hex_val)
    THEN JoinDots(ObisParts(hex_val))
    ELSE hex_val

\* ET.fromstring drops XML comments, so octet.text holds no "<!--" and
\* octet has no children: the comment stays empty
ObisEntry(hex_val) == [obis |-> ObisDot(hex_val), hex |-> hex_val, comment |-> <<>>]

RECURSIVE ObisEntries(_)
ObisEntries(kids) ==
    IF kids = <<>> THEN <<>>
    ELSE (IF Head(kids).tag = "Structure" /\ HasChild(Head(kids), "OctetString")
          THEN <<ObisEntry(Get(FirstChild(Head(kids), "OctetString"), "Value", <<>>))>>
          ELSE <<>>)
         \o ObisEntries(Tail(kids))

\* all_children[idx + 1:] of the parent of the array
ElementsAfter(root, obis_array) ==
    SubSeq(At(root, SubSeq(obis_array, 1, Len(obis_array) - 1)).kids,
           obis_array[Len(obis_array)] + 1,
           Len(At(root, SubSeq(obis_array, 1, Len(obis_array) - 1)).kids))

expected_values(obis_entries) ==
    IF Len(obis_entries) - 1 > 0 THEN Len(obis_entries) - 1 ELSE 0

\* the elements after the array that are parsed: the first expected_values
ParsedValues(elements_after, expected) ==
    [i \in 1..(IF Len(elements_after) < expected THEN Len(elements_after)
               ELSE expected) |->
        parse_xml_element_value(elements_after[i])]

EmptyValue == [type |-> "Empty", value |-> <<>>]

MissingValue == [type |-> "Missing", value |-> <<"[missing]">>]

RecordValueNoOffset(values, i) ==
    IF i = 0 THEN EmptyValue
    ELSE IF i < Len(values) THEN values[i + 1] ELSE MissingValue

\* the value of record i (from 0)
RecordValue(values, i) ==
    IF i = 0 THEN EmptyValue
    ELSE IF i - 1 < Len(values) THEN values[i] ELSE MissingValue

Records(obis_entries, values) ==
    [k \in 1..Len(obis_entries) |->
        [obis |-> obis_entries[k].obis,
         value |-> RecordValue(values, k - 1),
         comment |-> obis_entries[k].comment]]

ObisResult(invoke_id, records) ==
    [raises |-> FALSE, invoke_id |-> invoke_id, records |-> records,
     extra_structures |-> <<>>]

ExtractWith(root, obis_array, obis_entries) ==
    ObisResult(PushInvokeId(root),
               Records(obis_entries,
                       ParsedValues(ElementsAfter(root, obis_array),
                                    expected_values(obis_entries))))

ExtractFrom(root, arrays) ==
    IF arrays = <<>> THEN ObisResult(PushInvokeId(root), <<>>)
    ELSE ExtractWith(root, Head(arrays), ObisEntries(At(root, Head(arrays)).kids))

extract_obis_values_and_invoke_id(xml) ==
    IF ~xml.parses THEN [raises |-> TRUE, exc |-> "ValueError: Invalid XML"]
    ELSE ExtractFrom(xml.root, FindObisArray(xml.root))

IsLeap(year) == (year % 4 = 0 /\ year % 100 # 0) \/ year % 400 = 0

DaysInMonth(year, month) ==
    CASE month \in {1, 3, 5, 7, 8, 10, 12} -> 31
      [] month \in {4, 6, 9, 11} -> 30
      [] OTHER -> IF IsLeap(year) THEN 29 ELSE 28

\* int.from_bytes(b[9:11], 'big', signed=True)
SignedDeviation(b) == DevSigned(DevRaw(b))

\* timezone(timedelta(minutes=deviation)) if deviation != 0x8000 else
\* timezone.utc; timezone() raises ValueError unless the offset lies strictly
\* between -24 and 24 hours
TimezoneRaises(deviation) ==
    deviation # 32768 /\ (deviation <= 0 - 1440 \/ deviation >= 1440)

TimezoneOffset(deviation) == IF deviation # 32768 THEN deviation ELSE 0

\* datetime(year, month, day, hour, minute, second) raises ValueError on a
\* field out of range
DatetimeRaises(b) ==
    \/ DtYear(b) \notin 1..9999
    \/ b[3] \notin 1..12
    \/ b[4] \notin 1..DaysInMonth(DtYear(b), b[3])
    \/ b[6] > 23 \/ b[7] > 59 \/ b[8] > 59

ParseDlmsDatetimeBytesRaises(b) ==
    \/ Len(b) < 12
    \/ TimezoneRaises(SignedDeviation(b))
    \/ DatetimeRaises(b)

ParseDlmsDatetimeRaises(hex_str) ==
    UnhexlifyRaises(hex_str) \/ ParseDlmsDatetimeBytesRaises(Unhexlify(hex_str))

\* dt.isoformat() of an aware datetime: YYYY-MM-DDTHH:MM:SS+HH:MM
IsoFormat(b, offset) ==
    ZeroPad(DecimalStr(DtYear(b)), 4) \o <<"-">>
    \o ZeroPad(DecimalStr(b[3]), 2) \o <<"-">>
    \o ZeroPad(DecimalStr(b[4]), 2) \o <<"T">>
    \o ZeroPad(DecimalStr(b[6]), 2) \o <<":">>
    \o ZeroPad(DecimalStr(b[7]), 2) \o <<":">>
    \o ZeroPad(DecimalStr(b[8]), 2)
    \o <<IF offset < 0 THEN "-" ELSE "+">>
    \o ZeroPad(DecimalStr(Magnitude(offset) \div 60), 2) \o <<":">>
    \o ZeroPad(DecimalStr(Magnitude(offset) % 60), 2)

parse_dlms_datetime(hex_str) ==
    IsoFormat(Unhexlify(hex_str),
              TimezoneOffset(SignedDeviation(Unhexlify(hex_str))))

hex_to_ascii(hex_str) ==
    IF AsciiRaises(hex_str) THEN hex_str ELSE AsciiText(hex_str)

\* int(s) for the strings the translator writes in Value attributes:
\* decimal digits only give a number, anything else raises ValueError
IntBase10Raises(s) == ~IsDigits(s)

\* values.append(int(val_elem.get("Value", "0"))), 0 when that raises
UInt32Reading(val_elem) ==
    IF IntBase10Raises(Get(val_elem, "Value", <<"0">>)) THEN 0
    ELSE DecimalOf(Get(val_elem, "Value", <<"0">>))

RECURSIVE RowValues(_)
RowValues(elems) ==
    IF elems = <<>> THEN <<>>
    ELSE (IF Head(elems).tag = "UInt32" THEN <<UInt32Reading(Head(elems))>>
          ELSE <<>>)
         \o RowValues(Tail(elems))

\* the three continue statements of the loop over the rows
RowSkipped(struct_elem) ==
    \/ struct_elem.kids = <<>>
    \/ struct_elem.kids[1].tag # "OctetString"
    \/ ParseDlmsDatetimeRaises(Get(struct_elem.kids[1], "Value", <<>>))

DataEntry(struct_elem) ==
    [timestamp |-> parse_dlms_datetime(Get(struct_elem.kids[1], "Value", <<>>)),
     values |-> RowValues(Tail(struct_elem.kids))]

RECURSIVE DataEntriesReversed(_)
DataEntriesReversed(kids) ==
    IF kids = <<>> THEN <<>>
    ELSE DataEntriesReversed(Tail(kids))
         \o (IF Head(kids).tag = "Structure" /\ ~RowSkipped(Head(kids))
             THEN <<DataEntry(Head(kids))>> ELSE <<>>)

RECURSIVE DataEntries(_)
DataEntries(kids) ==
    IF kids = <<>> THEN <<>>
    ELSE (IF Head(kids).tag = "Structure" /\ ~RowSkipped(Head(kids))
          THEN <<DataEntry(Head(kids))>> ELSE <<>>)
         \o DataEntries(Tail(kids))

PushRaises(exc) == [raises |-> TRUE, exc |-> exc]

DayResult(invoke_id, structure) ==
    IF Len(structure.kids) < 2 THEN PushRaises("IndexError")
    ELSE [raises |-> FALSE, type |-> "day_push", invoke_id |-> invoke_id,
          logical_name |-> hex_to_ascii(Get(structure.kids[1], "Value", <<>>)),
          data |-> DataEntries(structure.kids[2].kids)]

\* the first Structure among the children of data_value
DayFromDataValue(root, data_value) ==
    IF ~HasChild(data_value, "Structure")
    THEN PushRaises("ValueError: No root Structure in DataValue")
    ELSE DayResult(PushInvokeId(root), FirstChild(data_value, "Structure"))

DayFrom(root, data_values) ==
    IF data_values = <<>> THEN PushRaises("TypeError")
    ELSE DayFromDataValue(root, At(root, Head(data_values)))

parse_new_style_push(xml) ==
    IF ~xml.parses THEN PushRaises("ParseError")
    ELSE DayFrom(xml.root, FindDataValue(xml.root))

process_dlms_message(xml) ==
    IF is_new_style_push(xml)
    THEN parse_new_style_push(xml)
    ELSE IF extract_obis_values_and_invoke_id(xml).raises
    THEN extract_obis_values_and_invoke_id(xml)
    ELSE [type |-> "obis_push"] @@ extract_obis_values_and_invoke_id(xml)

(***************************************************************************)
(* The push parser by itself: one call of is_new_style_push,               *)
(* extract_obis_values_and_invoke_id, parse_new_style_push or              *)
(* process_dlms_message on a decoded notification; last holds the call     *)
(* and its outcome.                                                        *)
(***************************************************************************)
MaxObis == 3

MaxFollowing == 3

MaxRows == 3

Leaf(tag, hex) == El(tag, [Value |-> hex], <<>>)

Struct(kids) == El("Structure", [Qty |-> ByteHex(Len(kids))], kids)

Arr(kids) == El("Array", [Qty |-> ByteHex(Len(kids))], kids)

Notification(top) ==
    El("DataNotification", NoAttrs,
       <<Leaf("LongInvokeIdAndPriority", BytesHex(<<64, 0, 0, 26>>))>> \o top)

Body(data) ==
    Parsed(Notification(<<El("NotificationBody", NoAttrs,
                             <<El("DataValue", NoAttrs, data)>>)>>))

SeqsUpTo(S, n) == UNION {[1..k -> S] : k \in 0..n}

\* the OBIS code 1.0.k.8.0.255 in hex
ObisHex(k) == BytesHex(<<1, 0, k, 8, 0, 255>>)

ObisStruct(hex) ==
    Struct(<<Leaf("UInt16", BytesHex(<<0, 8>>)), Leaf("OctetString", hex),
             Leaf("Int8", BytesHex(<<2>>))>>)

ObisArray(n) == Arr([k \in 1..n |-> ObisStruct(ObisHex(k))])

NameHex == BytesHex(<<80, 69, 78>>)

FollowingPool ==
    {Leaf("UInt16", BytesHex(<<0, 255>>)),
     Leaf("OctetString", NameHex),
     Leaf("Int8", BytesHex(<<255>>)),
     Struct(<<Leaf("Enum", BytesHex(<<1>>)),
              Leaf("UInt32", BytesHex(<<0, 0, 0, 26>>))>>)}

ObisPushTrees ==
    {Body(<<Struct(<<ObisArray(n)>> \o after)>>) :
        n \in 0..MaxObis, after \in SeqsUpTo(FollowingPool, MaxFollowing)}
    \cup {Body(<<Struct(<<Arr(<<ObisStruct(ObisHex(1)),
                               Struct(<<Leaf("UInt16", BytesHex(<<0, 8>>))>>),
                               Leaf("UInt16", BytesHex(<<0, 1>>)),
                               ObisStruct(<<"z", "z">>)>>),
                           El("Boolean", [Value |-> BytesHex(<<1>>)], <<>>),
                           Leaf("UInt8", <<>>)>>)>>)}

Timestamp(bytes) == Leaf("OctetString", BytesHex(bytes))

RowPool ==
    {Struct(<<Timestamp(<<7, 234, 1, 13, 255, 14, 33, 20, 0, 255, 76, 0>>),
              Leaf("UInt32", <<"0", "0", "0", "0", "0", "1", "0", "0">>),
              Leaf("UInt32", BytesHex(<<0, 0, 0, 26>>))>>),
     Struct(<<Timestamp(<<7, 234, 1, 14, 255, 0, 0, 0, 0, 0, 0, 0>>),
              Leaf("UInt16", BytesHex(<<0, 1>>)),
              Leaf("UInt32", <<"0", "0", "0", "0", "0", "0", "1", "0">>)>>),
     Struct(<<>>),
     Struct(<<Leaf("UInt32", BytesHex(<<0, 0, 0, 1>>)),
              Timestamp(<<7, 234, 1, 13, 255, 14, 33, 20, 0, 255, 76, 0>>)>>),
     Struct(<<Timestamp(<<7, 234, 1, 13, 255>>),
              Leaf("UInt32", BytesHex(<<0, 0, 0, 2>>))>>),
     Struct(<<Timestamp(<<7, 234, 1, 15, 255, 0, 30, 0, 0, 128, 0, 0>>),
              Leaf("UInt32", BytesHex(<<0, 0, 0, 3>>))>>),
     Struct(<<Timestamp(<<7, 234, 2, 30, 255, 0, 0, 0, 0, 0, 0, 0>>),
              Leaf("UInt32", BytesHex(<<0, 0, 0, 4>>))>>)}

DayPushTrees ==
    {Body(<<Struct(<<Leaf("OctetString", NameHex), Arr(rows)>>)>>) :
        rows \in SeqsUpTo(RowPool, MaxRows)}

ShapeTrees ==
    {ParseError,
     Parsed(Notification(<<>>)),
     Parsed(Notification(<<El("NotificationBody", NoAttrs, <<>>)>>)),
     Parsed(El("DataNotification", NoAttrs,
               <<Leaf("LongInvokeIdAndPriority", BytesHex(<<64, 0, 26>>)),
                 El("NotificationBody", NoAttrs,
                    <<El("DataValue", NoAttrs, <<>>)>>)>>)),
     Body(<<Leaf("UInt16", BytesHex(<<0, 1>>))>>),
     Body(<<Struct(<<>>)>>),
     Body(<<Arr(<<Struct(<<Leaf("OctetString", NameHex), Arr(<<>>)>>)>>)>>),
     Body(<<Struct(<<Leaf("UInt16", BytesHex(<<0, 1>>)), Arr(<<>>)>>)>>),
     Body(<<Struct(<<El("OctetString", NoAttrs, <<>>), Arr(<<>>)>>)>>),
     Body(<<Struct(<<Leaf("OctetString", NameHex)>>)>>),
     Body(<<Leaf("UInt16", BytesHex(<<0, 1>>)),
            Struct(<<Leaf("OctetString", NameHex), Arr(<<>>)>>)>>),
     Body(<<Struct(<<Leaf("OctetString", ObisHex(1)),
                     Arr(<<Struct(<<Leaf("OctetString", NameHex)>>)>>)>>)>>),
     Body(<<Struct(<<Struct(<<Leaf("OctetString", NameHex)>>),
                     Leaf("OctetString", NameHex)>>)>>)}

PushXmls == ObisPushTrees \cup DayPushTrees \cup ShapeTrees

InitPush == Init

IsNewStylePush(xml) ==
    /\ last = NoOp
    /\ last' = [kind |-> "is_new_style_push", arg |-> xml,
                out |-> is_new_style_push(xml)]
    /\ UNCHANGED <<status, wire, acks, pushSent, envExc, nSent, running, pc, listen, file, loaded>>

ExtractObisValuesAndInvokeId(xml) ==
    /\ last = NoOp
    /\ last' = [kind |-> "extract_obis_values_and_invoke_id", arg |-> xml,
                out |-> extract_obis_values_and_invoke_id(xml)]
    /\ UNCHANGED <<status, wire, acks, pushSent, envExc, nSent, running, pc, listen, file, loaded>>

ParseNewStylePush(xml) ==
    /\ last = NoOp
    /\ last' = [kind |-> "parse_new_style_push", arg |-> xml,
                out |-> parse_new_style_push(xml)]
    /\ UNCHANGED <<status, wire, acks, pushSent, envExc, nSent, running, pc, listen, file, loaded>>

ProcessDlmsMessage(xml) ==
    /\ last = NoOp
    /\ last' = [kind |-> "process_dlms_message", arg |-> xml,
                out |-> process_dlms_message(xml)]
    /\ UNCHANGED <<status, wire, acks, pushSent, envExc, nSent, running, pc, listen, file, loaded>>

NextPush ==
    \/ \E xml \in PushXmls : IsNewStylePush(xml)
    \/ \E xml \in PushXmls : ExtractObisValuesAndInvokeId(xml)
    \/ \E xml \in PushXmls : ParseNewStylePush(xml)
    \/ \E xml \in PushXmls : ProcessDlmsMessage(xml)

SpecPush == InitPush /\ [][NextPush]_vars

(***************************************************************************)
(* Reading the outcomes of the push parser.                                *)
(***************************************************************************)
\* the elements of the subtree of an element, as a set of paths
ElementsUnder(root, path) ==
    {IterPaths(At(root, path), path)[i] :
        i \in 1..Len(IterPaths(At(root, path), path))}

\* document order: an element comes before its descendants and before
\* everything under its later siblings
DocBefore(p, q) ==
    /\ p # q
    /\ \/ Len(p) < Len(q) /\ SubSeq(q, 1, Len(p)) = p
       \/ \E i \in 1..Len(p) :
             /\ i <= Len(q)
             /\ SubSeq(p, 1, i - 1) = SubSeq(q, 1, i - 1)
             /\ p[i] < q[i]

\* the first Structure inside NotificationBody/DataValue starts with an
\* OctetString whose Value does not have 12 characters
DayShape(xml) ==
    /\ xml.parses
    /\ FindDataValue(xml.root) # <<>>
    /\ \E p \in ElementsUnder(xml.root, Head(FindDataValue(xml.root))) :
          /\ At(xml.root, p).tag = "Structure"
          /\ \A q \in ElementsUnder(xml.root, Head(FindDataValue(xml.root))) :
                At(xml.root, q).tag = "Structure" => ~DocBefore(q, p)
          /\ At(xml.root, p).kids # <<>>
          /\ At(xml.root, p).kids[1].tag = "OctetString"
          /\ Len(Get(At(xml.root, p).kids[1], "Value", <<>>)) # 12

\* process_dlms_message went through parse_new_style_push: it returned a
\* day_push result or raised something other than the Invalid XML error of
\* extract_obis_values_and_invoke_id
TookDayPath ==
    IF last.out.raises THEN last.out.exc # "ValueError: Invalid XML"
    ELSE last.out.type = "day_push"

\* C18: is_new_style_push answers true, and process_dlms_message takes the
\* day-push path, exactly when the first Structure in document order inside
\* NotificationBody/DataValue has a first child that is an OctetString
\* whose Value does not have 12 characters; in every other case, unparseable
\* XML included, the OBIS-push path is taken.
C18_ShapeDetection ==
    /\ last.kind = "is_new_style_push" => (last.out <=> DayShape(last.arg))
    /\ last.kind = "process_dlms_message" => (TookDayPath <=> DayShape(last.arg))

C18_Witness ==
    /\ last.kind = "process_dlms_message"
    /\ DayShape(last.arg)
    /\ ~last.out.raises
    /\ last.out.type = "day_push"
    /\ Len(last.out.data) = 2

\* the OBIS array of a notification that has one, and the Structure it is in
ArrayPath(xml) == Head(FindObisArray(xml.root))

ArrayElem(xml) == At(xml.root, ArrayPath(xml))

ArrayParent(xml) ==
    At(xml.root, SubSeq(ArrayPath(xml), 1, Len(ArrayPath(xml)) - 1))

\* the positions in the array of the entries that carry an OBIS code
ObisPositions(xml) ==
    {k \in 1..Len(ArrayElem(xml).kids) :
        /\ ArrayElem(xml).kids[k].tag = "Structure"
        /\ HasChild(ArrayElem(xml).kids[k], "OctetString")}

\* the j-th element after the array in its parent, and how many there are
Following(xml, j) == ArrayParent(xml).kids[ArrayPath(xml)[Len(ArrayPath(xml))] + j]

FollowingCount(xml) ==
    Len(ArrayParent(xml).kids) - ArrayPath(xml)[Len(ArrayPath(xml))]

\* C19: with n OBIS entries and m elements after the OBIS array in its
\* parent, extract_obis_values_and_invoke_id returns n records in the order
\* of the array; the first has the Empty value; record i (1 <= i < n) has
\* the decoding of following element i-1 when there is one and the Missing
\* value otherwise; so following elements past the first n-1 are in no
\* record.
C19_RecordAssembly ==
    (/\ last.kind = "extract_obis_values_and_invoke_id"
     /\ last.arg.parses
     /\ FindObisArray(last.arg.root) # <<>>) =>
        /\ ~last.out.raises
        /\ Len(last.out.records) = Cardinality(ObisPositions(last.arg))
        /\ \A k \in ObisPositions(last.arg) :
              last.out.records[Cardinality({j \in ObisPositions(last.arg) : j <= k})].obis
                 = ObisDot(Get(FirstChild(ArrayElem(last.arg).kids[k], "OctetString"),
                               "Value", <<>>))
        /\ \A i \in 1..Len(last.out.records) :
              last.out.records[i].value
                 = (IF i = 1 THEN [type |-> "Empty", value |-> <<>>]
                    ELSE IF i - 1 <= FollowingCount(last.arg)
                    THEN parse_xml_element_value(Following(last.arg, i - 1))
                    ELSE [type |-> "Missing", value |-> <<"[missing]">>])
        /\ Cardinality({i \in 1..Len(last.out.records) :
                           last.out.records[i].value.type \notin {"Empty", "Missing"}})
              = (IF FollowingCount(last.arg) < Len(last.out.records) - 1
                 THEN FollowingCount(last.arg)
                 ELSE IF Len(last.out.records) = 0 THEN 0
                 ELSE Len(last.out.records) - 1)

C19_Witness ==
    /\ last.kind = "extract_obis_values_and_invoke_id"
    /\ last.arg = Body(<<Struct(<<ObisArray(3),
                                  Leaf("UInt16", BytesHex(<<0, 255>>)),
                                  Leaf("Int8", BytesHex(<<255>>))>>)>>)
    /\ Len(last.out.records) = 3
    /\ last.out.records[1].obis
          = <<"1", ".", "0", ".", "1", ".", "8", ".", "0", ".", "2", "5", "5">>
    /\ last.out.records[1].value.type = "Empty"
    /\ last.out.records[2].value
          = [type |-> "UInt16", value |-> <<"0", "0", "F", "F">>,
             decimal |-> <<"2", "5", "5">>]
    /\ last.out.records[3].value
          = [type |-> "Int8", value |-> <<"F", "F">>, decimal |-> <<"-", "1">>]

\* the Structure parse_new_style_push works on, and the children of its
\* second child
DayStructure(xml) ==
    FirstChild(At(xml.root, Head(FindDataValue(xml.root))), "Structure")

DayRows(xml) == DayStructure(xml).kids[2].kids

HasDayStructure(xml) ==
    /\ xml.parses
    /\ FindDataValue(xml.root) # <<>>
    /\ HasChild(At(xml.root, Head(FindDataValue(xml.root))), "Structure")
    /\ Len(DayStructure(xml).kids) >= 2

\* the positions of the rows that start with a timestamp that decodes
KeptRows(xml) ==
    {k \in 1..Len(DayRows(xml)) :
        /\ DayRows(xml)[k].tag = "Structure"
        /\ DayRows(xml)[k].kids # <<>>
        /\ DayRows(xml)[k].kids[1].tag = "OctetString"
        /\ ~ParseDlmsDatetimeRaises(Get(DayRows(xml)[k].kids[1], "Value", <<>>))}

\* the positions after the first of the UInt32 children of a row
UInt32Positions(row) == {p \in 2..Len(row.kids) : row.kids[p].tag = "UInt32"}

\* C20: parse_new_style_push does not raise because of a row: the rows
\* that are empty, that do not start with an OctetString or whose timestamp
\* does not decode are left out, and the other rows are in the output in
\* their order, each with its timestamp and one value per UInt32 field, in
\* the order of the fields.
C20_BadRowsSkipped ==
    (last.kind = "parse_new_style_push" /\ HasDayStructure(last.arg)) =>
        /\ ~last.out.raises
        /\ Len(last.out.data) = Cardinality(KeptRows(last.arg))
        /\ \A k \in KeptRows(last.arg) :
              /\ last.out.data[Cardinality({j \in KeptRows(last.arg) : j <= k})].timestamp
                    = parse_dlms_datetime(Get(DayRows(last.arg)[k].kids[1], "Value", <<>>))
              /\ Len(last.out.data[Cardinality({j \in KeptRows(last.arg) : j <= k})].values)
                    = Cardinality(UInt32Positions(DayRows(last.arg)[k]))
              /\ \A p \in UInt32Positions(DayRows(last.arg)[k]) :
                    last.out.data[Cardinality({j \in KeptRows(last.arg) : j <= k})]
                        .values[Cardinality({q \in UInt32Positions(DayRows(last.arg)[k]) : q <= p})]
                      = UInt32Reading(DayRows(last.arg)[k].kids[p])

C20_Witness ==
    /\ last.kind = "parse_new_style_push"
    /\ HasDayStructure(last.arg)
    /\ Len(DayRows(last.arg)) = 3
    /\ KeptRows(last.arg) = {2, 3}
    /\ DayRows(last.arg)[1].kids # <<>>
    /\ DayRows(last.arg)[1].kids[1] = Timestamp(<<7, 234, 1, 13, 255>>)
    /\ Len(last.out.data) = 2
    /\ last.out.data[1].timestamp
          = <<"2", "0", "2", "6", "-", "0", "1", "-", "1", "3", "T",
              "1", "4", ":", "3", "3", ":", "2", "0", "-", "0", "3", ":", "0", "0">>
    /\ Len(last.out.data[1].values) = 2
    /\ last.out.data[2].timestamp
          = <<"2", "0", "2", "6", "-", "0", "1", "-", "1", "4", "T",
              "0", "0", ":", "0", "0", ":", "0", "0", "+", "0", "0", ":", "0", "0">>

\* C25: for every notification that parses, process_dlms_message returns a
\* result of type obis_push or day_push and raises nothing.
C25_ClassifyThenExtract ==
    (last.kind = "process_dlms_message" /\ last.arg.parses) =>
        /\ ~last.out.raises
        /\ last.out.type \in {"obis_push", "day_push"}

\* the number a string of hex digits writes
HexValueOf(elem) == HexNumber(Get(elem, "Value", <<>>))

\* C28: each value parse_new_style_push collects for a row is the number
\* its UInt32 field writes in hex (0000001A is 26, 00000010 is 16), and
\* there are as many values as UInt32 fields after the timestamp.
C28_UInt32HexValues ==
    (last.kind = "parse_new_style_push" /\ HasDayStructure(last.arg)
        /\ ~last.out.raises
        /\ Len(last.out.data) = Cardinality(KeptRows(last.arg))) =>
        \A k \in KeptRows(last.arg) :
            /\ Len(last.out.data[Cardinality({j \in KeptRows(last.arg) : j <= k})].values)
                  = Cardinality(UInt32Positions(DayRows(last.arg)[k]))
            /\ \A p \in UInt32Positions(DayRows(last.arg)[k]) :
                  last.out.data[Cardinality({j \in KeptRows(last.arg) : j <= k})]
                      .values[Cardinality({q \in UInt32Positions(DayRows(last.arg)[k]) : q <= p})]
                    = HexValueOf(DayRows(last.arg)[k].kids[p])

\* a row that starts with a 12-byte timestamp with a date and a time that
\* exist and deviation 0x8000
UnspecifiedDeviationRow(row) ==
    /\ row.tag = "Structure"
    /\ row.kids # <<>>
    /\ row.kids[1].tag = "OctetString"
    /\ Len(Get(row.kids[1], "Value", <<>>)) = 24
    /\ IsHexString(Get(row.kids[1], "Value", <<>>))
    /\ ~DatetimeRaises(Unhexlify(Get(row.kids[1], "Value", <<>>)))
    /\ DeviationBits(Get(row.kids[1], "Value", <<>>)) = 32768

\* C29: a row whose timestamp has a valid date and time and deviation
\* 0x8000 is in the output of parse_new_style_push, its timestamp read as
\* UTC.
C29_UnspecifiedDeviationKept ==
    (last.kind = "parse_new_style_push" /\ HasDayStructure(last.arg)
        /\ ~last.out.raises) =>
        \A k \in 1..Len(DayRows(last.arg)) :
            UnspecifiedDeviationRow(DayRows(last.arg)[k]) =>
                \E i \in 1..Len(last.out.data) :
                    last.out.data[i].timestamp
                      = IsoFormat(Unhexlify(Get(DayRows(last.arg)[k].kids[1],
                                                "Value", <<>>)), 0)

\* C27: in every acknowledgment the length byte is the number of bytes
\* between the opening and the closing flag (control, length, address,
\* 0x13, FCS1, LLC header, PDU body and FCS2), and it is 34 whenever the
\* inbound invoke-id has 4 bytes.
C27_LengthBetweenFlags ==
    IsAck =>
        /\ last.resp[1] = 126
        /\ last.resp[Len(last.resp)] = 126
        /\ AckLen = Len(SubSeq(last.resp, 2, Len(last.resp) - 1))
        /\ AckLen = 2 + Len(AckAddress) + 1 + Len(AckFcs1) + 3 + Len(AckPdu)
                      + Len(AckFcs2)
        /\ Len(InboundValue) = 8 => AckLen = 34

C27_Witness ==
    /\ IsAck
    /\ last.raw = OtherPushFrame
    /\ Len(InboundValue) = 8
    /\ Len(last.resp) = 36
    /\ AckLen = 34

(***************************************************************************)
(* A decoded notification on its way through _process_dlms_frame with the  *)
(* push callback of the application (DLMS_UI.on_dlms_push_received:        *)
(* process_dlms_message, then DataSaver.save_dlms_push) bound: the record  *)
(* that is persisted and the acknowledgment that is returned come from     *)
(* the same XML.                                                           *)
(***************************************************************************)
MaxInvokeElems == 2

\* the Value attributes search() of extract_dlms_request_info sees, in
\* document order
LipValuesAt(root, paths) ==
    [i \in 1..Len(paths) |-> Get(At(root, paths[i]), "Value", <<>>)]

LipValues(root) ==
    LipValuesAt(root, WithTag(root, IterPaths(root, <<>>), "LongInvokeIdAndPriority"))

\* DataSaver.save_dlms_push: the entry appended to the file of the day
SavedEntry(parsed) ==
    IF parsed.type = "day_push"
    THEN [file |-> "dlms_day_push", invoke_id |-> parsed.invoke_id,
          logical_name |-> parsed.logical_name, data |-> parsed.data]
    ELSE [file |-> "dlms_push", invoke_id |-> parsed.invoke_id,
          records |-> parsed.records]

\* on_dlms_push_received: an exception of the parser is logged, nothing is
\* saved
on_dlms_push_received(xml) ==
    IF process_dlms_message(xml).raises THEN [saved |-> FALSE]
    ELSE [saved |-> TRUE, entry |-> SavedEntry(process_dlms_message(xml))]

InvokeElemValues ==
    {BytesHex(<<64, 0, 0, 26>>), BytesHex(<<64, 0, 0, 2>>),
     BytesHex(<<64, 0, 26>>), BytesHex(<<1, 35, 69, 103, 137>>),
     <<" ", "c", "0", " ", "0", "0", " ", "0", "0", " ", "1", "b">>, <<>>}

NotificationWith(values, data) ==
    Parsed(El("DataNotification", NoAttrs,
              [i \in 1..Len(values) |-> Leaf("LongInvokeIdAndPriority", values[i])]
              \o <<El("NotificationBody", NoAttrs,
                      <<El("DataValue", NoAttrs, data)>>)>>))

AckXmls ==
    {NotificationWith(values, data) :
        values \in SeqsUpTo(InvokeElemValues, MaxInvokeElems),
        data \in {<<Struct(<<ObisArray(2), Leaf("UInt16", BytesHex(<<0, 255>>))>>)>>,
                  <<Struct(<<Leaf("OctetString", NameHex), Arr(<<>>)>>)>>}}

InitAck == Init

\* _process_dlms_frame, lines 82-111, for the frame PushFrame
PushThenAcknowledge(xml, now) ==
    /\ last = NoOp
    /\ last' = [kind |-> "_process_dlms_frame", arg |-> xml,
                push |-> on_dlms_push_received(xml),
                resp |-> AcknowledgeInvoke(PushFrame,
                            extract_dlms_request_info(Decoded(LipValues(xml.root))).invoke_id,
                            [now |-> now]).resp]
    /\ UNCHANGED <<status, wire, acks, pushSent, envExc, nSent, running, pc, listen, file, loaded>>

NextAck == \E xml \in AckXmls, now \in Nows : PushThenAcknowledge(xml, now)

SpecAck == InitAck /\ [][NextAck]_vars

\* the invoke-id bytes an acknowledgment echoes, and the number its last
\* three write
EchoedInvoke(resp) == SubSeq(resp, 16, Len(resp) - 17)

EchoedLow3(resp) ==
    65536 * EchoedInvoke(resp)[Len(EchoedInvoke(resp)) - 2]
    + 256 * EchoedInvoke(resp)[Len(EchoedInvoke(resp)) - 1]
    + EchoedInvoke(resp)[Len(EchoedInvoke(resp))]

\* C26: when a decoded message is both persisted and acknowledged, the
\* invoke-id in the persisted record is the number written by the 3 low
\* invoke-id bytes echoed in the acknowledgment, whatever the number and
\* the length of the LongInvokeIdAndPriority values.
C26_PersistedIdIsEchoedId ==
    (last.kind = "_process_dlms_frame" /\ last.push.saved /\ last.resp # <<>>) =>
        /\ last.push.entry.invoke_id.known
        /\ last.push.entry.invoke_id.id = EchoedLow3(last.resp)

(***************************************************************************)
(* utils.py: classify_day_push_entry and validate_day_push_intervals on a  *)
(* persisted day-push entry.  Timestamps are texts in the layouts          *)
(* datetime.isoformat() writes for whole seconds: YYYY-MM-DDTHH:MM:SS,     *)
(* with +HH:MM, -HH:MM or Z after it, or nothing.                          *)
(***************************************************************************)
MaxIntervalRows == 3

\* ts_str.replace("Z", "+00:00") for a text with at most a final Z
ReplaceZ(ts_str) ==
    IF ts_str # <<>> /\ ts_str[Len(ts_str)] = "Z"
    THEN SubSeq(ts_str, 1, Len(ts_str) - 1) \o <<"+", "0", "0", ":", "0", "0">>
    ELSE ts_str

\* the number written by the digits at positions a..b of s
NumAt(s, a, b) == DecimalOf(SubSeq(s, a, b))

IsoLayout(s) ==
    /\ Len(s) \in {19, 25}
    /\ s[5] = "-" /\ s[8] = "-" /\ s[11] = "T" /\ s[14] = ":" /\ s[17] = ":"
    /\ IsDigits(SubSeq(s, 1, 4)) /\ IsDigits(SubSeq(s, 6, 7))
    /\ IsDigits(SubSeq(s, 9, 10)) /\ IsDigits(SubSeq(s, 12, 13))
    /\ IsDigits(SubSeq(s, 15, 16)) /\ IsDigits(SubSeq(s, 18, 19))
    /\ Len(s) = 25 =>
          /\ s[20] \in {"+", "-"} /\ s[23] = ":"
          /\ IsDigits(SubSeq(s, 21, 22)) /\ IsDigits(SubSeq(s, 24, 25))

IsoFieldsValid(s) ==
    /\ NumAt(s, 1, 4) \in 1..9999
    /\ NumAt(s, 6, 7) \in 1..12
    /\ NumAt(s, 9, 10) \in 1..DaysInMonth(NumAt(s, 1, 4), NumAt(s, 6, 7))
    /\ NumAt(s, 12, 13) < 24 /\ NumAt(s, 15, 16) < 60 /\ NumAt(s, 18, 19) < 60
    /\ Len(s) = 25 => (NumAt(s, 21, 22) < 24 /\ NumAt(s, 24, 25) < 60)

\* datetime.fromisoformat raises ValueError
FromIsoRaises(s) == ~IsoLayout(s) \/ ~IsoFieldsValid(s)

\* days from 1 January 2000 to the first day of the year
DaysBeforeYear(year) ==
    (year - 1) * 365 + (year - 1) \div 4 - (year - 1) \div 100
    + (year - 1) \div 400 - 730119

RECURSIVE DaysBeforeMonth(_, _)
DaysBeforeMonth(year, month) ==
    IF month = 1 THEN 0
    ELSE DaysBeforeMonth(year, month - 1) + DaysInMonth(year, month - 1)

\* the seconds from 2000-01-01T00:00:00 to the wall-clock reading of s
WallSeconds(s) ==
    86400 * (DaysBeforeYear(NumAt(s, 1, 4))
             + DaysBeforeMonth(NumAt(s, 1, 4), NumAt(s, 6, 7))
             + NumAt(s, 9, 10) - 1)
    + 3600 * NumAt(s, 12, 13) + 60 * NumAt(s, 15, 16) + NumAt(s, 18, 19)

\* the UTC offset of s in seconds
OffsetSeconds(s) ==
    (IF s[20] = "-" THEN 0 - 1 ELSE 1)
    * (3600 * NumAt(s, 21, 22) + 60 * NumAt(s, 24, 25))

\* datetime.fromisoformat: aware datetimes are compared and subtracted by
\* their UTC instant, naive ones by their wall-clock reading
FromIso(s) ==
    IF Len(s) = 25
    THEN [aware |-> TRUE, at |-> WallSeconds(s) - OffsetSeconds(s)]
    ELSE [aware |-> FALSE, at |-> WallSeconds(s)]

\* list.sort() on the instants
RECURSIVE InsertSorted(_, _)
InsertSorted(x, sorted) ==
    IF sorted = <<>> THEN <<x>>
    ELSE IF x < Head(sorted) THEN <<x>> \o sorted
    ELSE <<Head(sorted)>> \o InsertSorted(x, Tail(sorted))

RECURSIVE SortedInstants(_)
SortedInstants(timestamps) ==
    IF timestamps = <<>> THEN <<>>
    ELSE InsertSorted(Head(timestamps).at, SortedInstants(Tail(timestamps)))

\* a validator that expects thirty minutes for every profile
ExpectedDeltaHalfHour(profile_type) == 1800

\* timedelta(days=1) if profile_type == "daily" else timedelta(minutes=30)
expected_delta(profile_type) == IF profile_type = "daily" THEN 86400 ELSE 1800

DeltasOk(sorted, delta) ==
    \A i \in 2..Len(sorted) : sorted[i] - sorted[i - 1] = delta

\* comparing an aware datetime with a naive one raises TypeError
SortRaises(timestamps) ==
    \E i, j \in 1..Len(timestamps) : timestamps[i].aware # timestamps[j].aware

ValidateParsed(timestamps, delta) ==
    IF SortRaises(timestamps) THEN FALSE
    ELSE DeltasOk(SortedInstants(timestamps), delta)

validate_day_push_intervals(entry, profile_type) ==
    IF Len(entry.data) < 2 THEN TRUE
    ELSE IF \E i \in 1..Len(entry.data) :
               FromIsoRaises(ReplaceZ(entry.data[i].timestamp))
    THEN FALSE
    ELSE ValidateParsed([i \in 1..Len(entry.data) |->
                            FromIso(ReplaceZ(entry.data[i].timestamp))],
                        expected_delta(profile_type))

classify_day_push_entry(entry) ==
    IF entry.data = <<>> THEN "unknown"
    ELSE IF Len(entry.data[1].values) = 20 THEN "daily"
    ELSE IF Len(entry.data[1].values) = 4 THEN "half_hourly"
    ELSE "unknown"

(***************************************************************************)
(* The interval validator on its own: one call of classify_day_push_entry  *)
(* and validate_day_push_intervals on one entry, as the viewer makes it.   *)
(***************************************************************************)
Stamp(day, hour, minute, second, offset) ==
    IsoFormat(<<7, 234, 1, day, 255, hour, minute, second>>, offset)

\* midnight of 13 January 2026 UTC and rows after it; one row is written
\* with a -03:00 offset, one with Z, one without an offset, one is empty
StampPool ==
    { Stamp(13, 0, 0, 0, 0),
      Stamp(13, 0, 30, 0, 0),
      Stamp(13, 0, 30, 1, 0),
      Stamp(12, 22, 0, 0, 0 - 180),
      SubSeq(Stamp(14, 0, 0, 0, 0), 1, 19) \o <<"Z">>,
      Stamp(15, 0, 0, 0, 0),
      SubSeq(Stamp(13, 1, 0, 0, 0), 1, 19),
      SubSeq(Stamp(13, 1, 30, 0, 0), 1, 19),
      <<>> }

ValueCounts == {0, 4, 20}
ProfileTypes == {"daily", "half_hourly", "unknown"}

EntryOf(stamps, count) ==
    [data |-> [i \in 1..Len(stamps) |->
                  [timestamp |-> stamps[i], values |-> [k \in 1..count |-> 0]]]]

Entries ==
    { EntryOf(stamps, count) :
        stamps \in SeqsUpTo(StampPool, MaxIntervalRows), count \in ValueCounts }

InitIntervals == Init

ValidateDayPushIntervals(entry, profile_type) ==
    /\ last = NoOp
    /\ last' = [kind |-> "validate_day_push_intervals",
                arg |-> entry,
                profile |-> profile_type,
                class |-> classify_day_push_entry(entry),
                out |-> validate_day_push_intervals(entry, profile_type)]
    /\ UNCHANGED <<status, wire, acks, pushSent, envExc, nSent, running, pc, listen, file, loaded>>

NextIntervals ==
    \E entry \in Entries, profile_type \in ProfileTypes :
        ValidateDayPushIntervals(entry, profile_type)

SpecIntervals == InitIntervals /\ [][NextIntervals]_vars

(***************************************************************************)
(* C21 read from the entry: the parsed rows as a set of instants.          *)
(***************************************************************************)
RowParses(row) == ~FromIsoRaises(ReplaceZ(row.timestamp))
RowInstant(row) == FromIso(ReplaceZ(row.timestamp))
AllParse(entry) == \A i \in 1..Len(entry.data) : RowParses(entry.data[i])
InstantSet(entry) == { RowInstant(entry.data[i]).at : i \in 1..Len(entry.data) }
Comparable(entry) ==
    \A i, j \in 1..Len(entry.data) :
        RowInstant(entry.data[i]).aware = RowInstant(entry.data[j]).aware

\* the rows, put in time order, step by exactly delta: no two rows share an
\* instant and every row but the earliest has a row delta before it
EvenlySpaced(entry, delta) ==
    /\ Comparable(entry)
    /\ Cardinality(InstantSet(entry)) = Len(entry.data)
    /\ Cardinality({ t \in InstantSet(entry) : t - delta \notin InstantSet(entry) }) = 1

ProfileDelta(profile) == IF profile = "daily" THEN 24 * 3600 ELSE 30 * 60

Reordered(entry) ==
    { [data |-> [i \in 1..Len(entry.data) |-> entry.data[p[i]]]] :
        p \in { q \in [1..Len(entry.data) -> 1..Len(entry.data)] :
                  \A i, j \in 1..Len(entry.data) : q[i] = q[j] => i = j } }

Validated == last.kind = "validate_day_push_intervals"
                 /\ last.profile \in {"daily", "half_hourly"}

\* C21 (as stated): a validated entry of at least two parsing rows is valid
\* exactly when its rows in time order step by the profile's interval, the
\* verdict is the same for every order of the rows, an entry of fewer than
\* two rows is valid, and an entry with any unparseable timestamp is invalid.
C21_AnyParseFailureInvalid ==
    Validated =>
        /\ Len(last.arg.data) < 2 => last.out = TRUE
        /\ ~AllParse(last.arg) => last.out = FALSE
        /\ (Len(last.arg.data) >= 2 /\ AllParse(last.arg)) =>
              (last.out = EvenlySpaced(last.arg, ProfileDelta(last.profile)))

\* C21: a validated entry of fewer than two rows is valid whatever its
\* timestamps; one of at least two rows with an unparseable timestamp is
\* invalid; one of at least two parsing rows is valid exactly when its rows
\* in time order step by 24 hours (daily) or 30 minutes (half_hourly); and
\* the verdict is the same for every order of the rows.
C21_IntervalValidation ==
    Validated =>
        /\ Len(last.arg.data) < 2 => last.out = TRUE
        /\ (Len(last.arg.data) >= 2 /\ ~AllParse(last.arg)) => last.out = FALSE
        /\ (Len(last.arg.data) >= 2 /\ AllParse(last.arg)) =>
              (last.out = EvenlySpaced(last.arg, ProfileDelta(last.profile)))
        /\ \A other \in Reordered(last.arg) :
              validate_day_push_intervals(other, last.profile) = last.out

\* three half-hourly rows stored out of time order, one of them written with
\* another UTC offset, are found valid
C21_Witness ==
    /\ Validated
    /\ last.profile = "half_hourly"
    /\ Len(last.arg.data) = 3
    /\ AllParse(last.arg)
    /\ RowInstant(last.arg.data[1]).at > RowInstant(last.arg.data[2]).at
    /\ \E i \in 1..3 : /\ Len(last.arg.data[i].timestamp) = 25
                        /\ last.arg.data[i].timestamp[20] = "-"
    /\ last.out = TRUE

(***************************************************************************)
(* DLMS_Parser.py: try_decode_ascii and enhance_xml_element.  A comment    *)
(* the code appends is a child with the tag "#comment" whose text is kept  *)
(* as the pieces of the f-string.  int(value, 16) is read on values        *)
(* without blanks, sign, prefix or underscores.                            *)
(***************************************************************************)
\* binascii.unhexlify(hex_str).decode('ascii'), None on any exception
try_decode_ascii(hex_str) ==
    IF AsciiRaises(hex_str) THEN None ELSE Some(AsciiText(hex_str))

\* ascii_str and ascii_str.isprintable()
IsPrintableText(decoded) ==
    decoded.some /\ decoded.text # <<>>
        /\ \A i \in 1..Len(decoded.text) : decoded.text[i] \in 32..126

CLASS_NAMES ==
    [n \in {1, 3, 7, 18, 23, 9, 11, 20, 6, 22, 45, 29, 70, 71, 40, 41, 42, 47, 64, 124} |->
        CASE n = 1 -> "Data" [] n = 3 -> "Register" [] n = 7 -> "ProfileGeneric"
          [] n = 18 -> "ImageTransfer" [] n = 23 -> "IecHdlcSetup"
          [] n = 9 -> "ScriptTable" [] n = 11 -> "SpecialDaysTable"
          [] n = 20 -> "ActivityCalendar" [] n = 6 -> "RegisterActivation"
          [] n = 22 -> "ActionSchedule" [] n = 45 -> "GprsSetup"
          [] n = 29 -> "AutoConnect" [] n = 70 -> "DisconnectControl"
          [] n = 71 -> "Limiter" [] n = 40 -> "PushSetup" [] n = 41 -> "TcpUdpSetup"
          [] n = 42 -> "Ip4Setup" [] n = 47 -> "GSMDiagnostic"
          [] n = 64 -> "SecuritySetup" [] OTHER -> "CommunicationPortProtection"]

\* the keys of OBIS_NAMES, as (third byte, name): 0100620000FF is the Clock,
\* 0000k90900FF is Push1..Push5
OBIS_NAMES(upper) ==
    IF upper = BytesHex(<<1, 0, 98, 0, 0, 255>>) THEN <<"Clock">>
    ELSE IF upper = BytesHex(<<0, 0, 25, 9, 0, 255>>) THEN <<"Push1">>
    ELSE IF upper = BytesHex(<<0, 0, 41, 9, 0, 255>>) THEN <<"Push2">>
    ELSE IF upper = BytesHex(<<0, 0, 57, 9, 0, 255>>) THEN <<"Push3">>
    ELSE IF upper = BytesHex(<<0, 0, 169, 9, 0, 255>>) THEN <<"Push4">>
    ELSE IF upper = BytesHex(<<0, 0, 185, 9, 0, 255>>) THEN <<"Push5">>
    ELSE <<>>

Comment(text) == El("#comment", [text |-> text], <<>>)

ElemValue(element) == Get(element, "Value", <<>>)

\* the branches of enhance_xml_element that convert outside a try block
EnhanceRaisesHere(element) ==
    \/ element.tag = "TargetAddress" /\ ElemValue(element) # <<>>
          /\ IntBase16Raises(ElemValue(element))
    \/ element.tag = "SourceAddress" /\ IntBase16Raises(ElemValue(element))
    \/ element.tag = "InstanceId" /\ ElemValue(element) # <<>>
          /\ hex_to_obis(ElemValue(element)).raises

\* element.set("Value", ...)
EnhancedAttrs(element) ==
    IF element.tag \in {"ClassId", "AttributeId"} /\ ElemValue(element) # <<>>
          /\ ~IntBase16Raises(ElemValue(element))
    THEN [element.attrs EXCEPT !.Value = DecimalStr(HexNumber(ElemValue(element)))]
    ELSE IF element.tag = "InstanceId" /\ ElemValue(element) # <<>>
    THEN [element.attrs EXCEPT !.Value = hex_to_obis(ElemValue(element)).ret]
    ELSE element.attrs

SourceAddressComment(dec) ==
    IF dec > 16383
    THEN Comment(<<"Logical address", DecimalStr(dec \div 16384),
                   "Physical address", DecimalStr(dec % 16384)>>)
    ELSE Comment(<<"Logical address", DecimalStr(dec \div 128),
                   "Physical address", DecimalStr(dec % 128)>>)

PriorityComments(high_byte) ==
    IF high_byte = <<"4", "0">>
    THEN <<Comment(<<"Normal priority.">>), Comment(<<"Confirmed service.">>)>>
    ELSE IF high_byte = <<"8", "0">>
    THEN <<Comment(<<"High priority.">>), Comment(<<"Non-confirmed service.">>)>>
    ELSE IF high_byte = <<"C", "0">>
    THEN <<Comment(<<"High priority.">>), Comment(<<"Confirmed service.">>)>>
    ELSE <<Comment(<<"Priority byte: 0x", high_byte>>),
           Comment(<<"Service type unknown.">>)>>

LongInvokeComments(clean) ==
    IF HasLongInvoke(clean)
    THEN PriorityComments(SubSeq(clean, 1, 2))
         \o <<Comment(<<"Invoke ID:", DecimalStr(HexNumber(SubSeq(clean, 3, Len(clean))))>>)>>
    ELSE <<>>

DateTimeComment(label, dt_str) ==
    IF dt_str.some /\ dt_str.text # <<>> THEN <<Comment(<<label, dt_str.text>>)>> ELSE <<>>

OctetStringComments(value) ==
    IF IsPrintableText(try_decode_ascii(value))
    THEN <<Comment(<<try_decode_ascii(value).text>>)>>
    ELSE IF Len(value) = 12 /\ ~hex_to_obis(value).raises
    THEN <<Comment(<<"OBIS:", hex_to_obis(value).ret, OBIS_NAMES(UpperStr(value))>>)>>
    ELSE DateTimeComment("DateTime:", try_decode_dlms_datetime(value))

\* the comments the element's own branch appends, when it does not raise
EnhanceComments(element, value) ==
    IF value = <<>> THEN <<>>
    ELSE IF element.tag = "TargetAddress"
    THEN <<Comment(<<"TargetAddress", DecimalStr(HexNumber(value))>>)>>
    ELSE IF element.tag = "SourceAddress"
    THEN <<SourceAddressComment(HexNumber(value))>>
    ELSE IF element.tag = "ClassId"
    THEN (IF ~IntBase16Raises(value) /\ HexNumber(value) \in DOMAIN CLASS_NAMES
          THEN <<Comment(<<CLASS_NAMES[HexNumber(value)]>>)>> ELSE <<>>)
    ELSE IF element.tag = "LongInvokeIdAndPriority"
    THEN LongInvokeComments(CleanHex(value))
    ELSE IF element.tag = "DateTime"
    THEN DateTimeComment("", try_decode_dlms_datetime(value))
    ELSE IF element.tag = "OctetString"
    THEN OctetStringComments(value)
    ELSE <<>>

\* enhance_xml_element: the element's own branch, then its children in
\* order; an exception anywhere leaves the call by that exception
RECURSIVE EnhanceRaises(_)
EnhanceRaises(element) ==
    \/ EnhanceRaisesHere(element)
    \/ \E k \in 1..Len(element.kids) : EnhanceRaises(element.kids[k])

RECURSIVE Enhanced(_)
Enhanced(element) ==
    El(element.tag, EnhancedAttrs(element),
       [k \in 1..Len(element.kids) |-> Enhanced(element.kids[k])]
       \o EnhanceComments(element, ElemValue(element)))

enhance_xml_element(element) ==
    IF EnhanceRaises(element) THEN [raises |-> TRUE, exc |-> "ValueError"]
    ELSE [raises |-> FALSE, root |-> Enhanced(element)]

(***************************************************************************)
(* The enrichment on its own: one call of enhance_xml_element on a tree of *)
(* one element, or of a root with one or two children.                     *)
(***************************************************************************)
MaxEnhanceKids == 2

EnhanceTags ==
    {"TargetAddress", "SourceAddress", "ClassId", "AttributeId", "InstanceId",
     "LongInvokeIdAndPriority", "DateTime", "OctetString", "Structure"}

\* 14:33:20 on 13 January 2026, eight bytes
DateTimeHex == BytesHex(<<7, 234, 1, 13, 255, 14, 33, 20>>)

EnhanceValues ==
    { <<>>,
      <<"0", "0", "0", "7">>,
      <<"4", "1", "4", "2">>,
      <<"1", "A", "2">>,
      <<"Z", "Z">>,
      <<"4", "0", "0", "0", "0", "0", "0", "2">>,
      BytesHex(<<0, 0, 25, 9, 0, 255>>),
      SubSeq(BytesHex(<<0, 0, 25, 9, 0, 255>>), 1, 10) \o <<"G", "G">>,
      DateTimeHex }

\* the tags whose value the code reads as one number
NumberTags ==
    {"TargetAddress", "SourceAddress", "ClassId", "AttributeId",
     "LongInvokeIdAndPriority"}

EnhanceElements ==
    { El(tag, NoAttrs, <<>>) : tag \in EnhanceTags }
    \cup { Leaf(tag, value) : tag \in EnhanceTags \ NumberTags, value \in EnhanceValues }
    \cup { Leaf(tag, value) : tag \in NumberTags, value \in EnhanceValues \ {DateTimeHex} }

EnhanceTrees ==
    EnhanceElements
    \cup { El("DataNotification", NoAttrs, kids) :
             kids \in SeqsUpTo(EnhanceElements, MaxEnhanceKids) }

InitEnhance == Init

EnhanceXmlElement(element) ==
    /\ last = NoOp
    /\ last' = [kind |-> "enhance_xml_element",
                arg |-> element,
                out |-> enhance_xml_element(element)]
    /\ UNCHANGED <<status, wire, acks, pushSent, envExc, nSent, running, pc, listen, file, loaded>>

NextEnhance == \E element \in EnhanceTrees : EnhanceXmlElement(element)

SpecEnhance == InitEnhance /\ [][NextEnhance]_vars

\* C24: enhance_xml_element completes without an exception on every element
\* tree, whatever the tags are and whether a Value attribute is absent,
\* empty, of odd length or not hexadecimal.
C24_EnrichmentNeverRaises ==
    last.kind = "enhance_xml_element" => ~last.out.raises

(***************************************************************************)
(* Push_Parser.append_to_json_file, called by DataSaver.save_dlms_push and *)
(* save_autoconnect from the callbacks, which run in the thread of the     *)
(* connection or of the datagram that brought the message.  NWriters of    *)
(* these threads append to the same file of the day; writer w appends the  *)
(* record w.  The function takes no lock, so its steps interleave:         *)
(*   pc[w] = "exists" : before os.path.exists(filename)                    *)
(*   pc[w] = "load"   : before open(filename, 'r') and json.load           *)
(*   pc[w] = "open"   : records.append(data) done, before open(.., 'w')    *)
(*   pc[w] = "dump"   : the file is truncated, before json.dump and close  *)
(*   pc[w] = "done"   : returned                                           *)
(* file.valid says that the file holds a JSON document, file.items is the  *)
(* list it holds.  The records are taken to be of one size, so a document  *)
(* written from offset 0 over a longer one leaves a tail that is not JSON. *)
(***************************************************************************)
NWriters == 3

Writers == 1..NWriters

\* the record that was in the file before
Earlier == NWriters + 1

FileOf(items) == [exists |-> TRUE, valid |-> TRUE, items |-> items]

\* the file just after open(filename, 'w'): empty
Truncated == [exists |-> TRUE, valid |-> FALSE, items |-> <<>>]

\* a shorter document written over the head of a longer one
Garbled(items) == [exists |-> TRUE, valid |-> FALSE, items |-> items]

InitAppend ==
    /\ status = [c \in Conns |-> "open"]
    /\ wire = [c \in Conns |-> <<>>]
    /\ acks = [c \in Conns |-> 0]
    /\ pushSent = [c \in Conns |-> 0]
    /\ envExc = [c \in Conns |-> FALSE]
    /\ nSent = 0
    /\ last = NoOp
    /\ running = TRUE
    /\ listen = Listening
    /\ pc = [w \in Writers |-> "exists"]
    /\ loaded = [w \in Writers |-> <<>>]
    /\ file \in {NoFile, FileOf(<<>>), FileOf(<<Earlier>>)}

\* if os.path.exists(filename): ... else: records = []; records.append(data)
PathExists(w) ==
    /\ pc[w] = "exists"
    /\ pc' = [pc EXCEPT ![w] = IF file.exists THEN "load" ELSE "open"]
    /\ loaded' = [loaded EXCEPT ![w] = IF file.exists THEN @ ELSE <<w>>]
    /\ UNCHANGED <<status, wire, acks, pushSent, envExc, nSent, last, running, listen, file>>

\* json.load(f), [] on JSONDecodeError; records.append(data)
JsonLoad(w) ==
    /\ pc[w] = "load"
    /\ pc' = [pc EXCEPT ![w] = "open"]
    /\ loaded' = [loaded EXCEPT ![w] = IF file.valid THEN file.items \o <<w>> ELSE <<w>>]
    /\ UNCHANGED <<status, wire, acks, pushSent, envExc, nSent, last, running, listen, file>>

\* open(filename, 'w') empties the file
OpenForWriting(w) ==
    /\ pc[w] = "open"
    /\ pc' = [pc EXCEPT ![w] = "dump"]
    /\ file' = Truncated
    /\ UNCHANGED <<status, wire, acks, pushSent, envExc, nSent, last, running, listen, loaded>>

\* json.dump(records, f) and the close that flushes it, from offset 0
JsonDump(w) ==
    /\ pc[w] = "dump"
    /\ pc' = [pc EXCEPT ![w] = "done"]
    /\ file' = IF Len(file.items) > Len(loaded[w])
               THEN Garbled(file.items) ELSE FileOf(loaded[w])
    /\ UNCHANGED <<status, wire, acks, pushSent, envExc, nSent, last, running, listen, loaded>>

NextAppend ==
    \/ \E w \in Writers : PathExists(w)
    \/ \E w \in Writers : JsonLoad(w)
    \/ \E w \in Writers : OpenForWriting(w)
    \/ \E w \in Writers : JsonDump(w)

SpecAppend == InitAppend /\ [][NextAppend]_vars

Elems(items) == { items[i] : i \in 1..Len(items) }

AllAppended == pc \in [Writers -> {"done"}]

\* C22: when every writer has returned, the file is a JSON list that holds
\* the record of every writer, and the earlier record if a writer found it
\* in the file.
C22_NoLostAppend ==
    AllAppended =>
        /\ file.valid
        /\ Writers \subseteq Elems(file.items)
        /\ (\E w \in Writers : Earlier \in Elems(loaded[w])) => Earlier \in Elems(file.items)

(***************************************************************************)
(* Network_Server with stop().  start_tcp and start_udp have been called   *)
(* on one port each; the threads are                                       *)
(*   pc.tcp_loop    : "test" (while self.running), "accept" (in            *)
(*                    sock.accept()), "exited"                             *)
(*   pc.udp_loop    : "test", "recvfrom", "exited"                         *)
(*   pc.handler[c]  : handle_tcp_client of connection c: "unborn", "test"  *)
(*                    (while self.running), "recv" (in recv(4096)),        *)
(*                    "exited" (client_socket closed)                      *)
(*   pc.udp_handler : handle_udp_packet of the datagram in wire[0]:        *)
(*                    "none", "handle" (before _handle_message), "reply"   *)
(*                    (before the test of self.udp_servers)                *)
(*   pc.stop        : stop() in the thread of the caller: "idle" (not      *)
(*                    called), "close_tcp", "close_udp", "clear_udp",      *)
(*                    "returned"                                           *)
(* status[c] is the connection of peer c: "idle", "pending" (in the        *)
(* backlog), "accepted", "peer_closed", "closed".  Whether closing a       *)
(* listening socket wakes a thread blocked in accept or recvfrom on it     *)
(* depends on the platform: listen.wakes is either from the start.  The    *)
(* output callback, the callbacks and the codec are taken not to raise:    *)
(* what an exception does to a handler is in Spec.                         *)
(***************************************************************************)
NStopConn == 1      \* TCP peers beside the UDP peer

StopConns == 1..NStopConn

StopMessages == {PushFrame, AutoconnectText}

RECURSIVE JoinAll(_)
JoinAll(ms) == IF ms = <<>> THEN <<>> ELSE Head(ms) \o JoinAll(Tail(ms))

\* what recv and recvfrom can return: the messages written and not yet read
StopBuffers == { JoinAll(ms) : ms \in SeqsUpTo(StopMessages, MaxSends) }

\* process_message on each of these buffers when nothing raises
HandledCalmly ==
    [raw_data \in StopBuffers |->
        {[xml |-> x, res |-> process_message(raw_data, x, CalmEnv)] :
            x \in MessageToXmlOutcomes(raw_data)}]

Stopped == pc.stop = "returned"

\* local_port in self.udp_servers
UdpRegistered == pc.stop \notin {"returned"}

InitStop ==
    /\ status = [c \in StopConns |-> "idle"]
    /\ wire = [c \in 0..NStopConn |-> <<>>]
    /\ acks = [c \in 0..NStopConn |-> 0]
    /\ pushSent = [c \in StopConns |-> 0]
    /\ envExc = [c \in StopConns |-> FALSE]
    /\ nSent = 0
    /\ last = NoOp @@ [afterStop |-> FALSE]
    /\ running = TRUE
    /\ listen \in {[open |-> {"tcp", "udp"}, wakes |-> w] : w \in BOOLEAN}
    /\ pc = [tcp_loop |-> "test", udp_loop |-> "test", udp_handler |-> "none",
             handler |-> [c \in StopConns |-> "unborn"], stop |-> "idle"]
    /\ file = NoFile
    /\ loaded = <<>>

\* a call blocked on the listening socket can still return a peer
Reachable(sock, loop_pc, blocked) ==
    sock \in listen.open \/ (~listen.wakes /\ loop_pc = blocked)

\* the peer of c connects
Connect(c) ==
    /\ status[c] = "idle"
    /\ Reachable("tcp", pc.tcp_loop, "accept")
    /\ status' = [status EXCEPT ![c] = "pending"]
    /\ UNCHANGED <<wire, acks, pushSent, envExc, nSent, last, running, pc, listen, file, loaded>>

\* the peer of c writes one message
PeerSend(c, m) ==
    /\ status[c] \in {"pending", "accepted"}
    /\ nSent < MaxSends
    /\ wire' = [wire EXCEPT ![c] = @ \o m]
    /\ nSent' = nSent + 1
    /\ UNCHANGED <<status, acks, pushSent, envExc, last, running, pc, listen, file, loaded>>

\* the peer of c closes its end
PeerClose(c) ==
    /\ status[c] = "accepted"
    /\ status' = [status EXCEPT ![c] = "peer_closed"]
    /\ UNCHANGED <<wire, acks, pushSent, envExc, nSent, last, running, pc, listen, file, loaded>>

\* tcp_loop: while self.running, then sock.accept(), which raises
\* socket.error on a closed socket; after the loop, sock.close()
TcpLoopTest ==
    /\ pc.tcp_loop = "test"
    /\ pc' = [pc EXCEPT !.tcp_loop =
                 IF running /\ "tcp" \in listen.open THEN "accept" ELSE "exited"]
    /\ listen' = [listen EXCEPT !.open =
                     IF running /\ "tcp" \in listen.open THEN @ ELSE @ \ {"tcp"}]
    /\ UNCHANGED <<status, wire, acks, pushSent, envExc, nSent, last, running, file, loaded>>

\* sock.accept() returns the connection of c; its handler thread starts
Accept(c) ==
    /\ pc.tcp_loop = "accept"
    /\ status[c] = "pending"
    /\ Reachable("tcp", pc.tcp_loop, "accept")
    /\ status' = [status EXCEPT ![c] = "accepted"]
    /\ pc' = [pc EXCEPT !.tcp_loop = "test", !.handler[c] = "test"]
    /\ UNCHANGED <<wire, acks, pushSent, envExc, nSent, last, running, listen, file, loaded>>

\* the blocked sock.accept() raises because the socket was closed
AcceptFails ==
    /\ pc.tcp_loop = "accept"
    /\ "tcp" \notin listen.open
    /\ listen.wakes
    /\ pc' = [pc EXCEPT !.tcp_loop = "exited"]
    /\ UNCHANGED <<status, wire, acks, pushSent, envExc, nSent, last, running, listen, file, loaded>>

\* handle_tcp_client: while self.running; finally client_socket.close()
HandlerTest(c) ==
    /\ pc.handler[c] = "test"
    /\ pc' = [pc EXCEPT !.handler[c] = IF running THEN "recv" ELSE "exited"]
    /\ status' = [status EXCEPT ![c] = IF running THEN @ ELSE "closed"]
    /\ UNCHANGED <<wire, acks, pushSent, envExc, nSent, last, running, listen, file, loaded>>

\* the record of a buffer, and whether stop() had returned when it was handled
DoneAt(kind, c, raw, h, sent) ==
    [Done(kind, c, raw, h.xml, h.res) EXCEPT !.sent = @ /\ sent]
    @@ [afterStop |-> Stopped]

HandlerAfter(c, escaped) ==
    /\ pc' = [pc EXCEPT !.handler[c] = IF escaped THEN "exited" ELSE "test"]
    /\ status' = [status EXCEPT ![c] = IF escaped THEN "closed" ELSE @]

\* handle_tcp_client: recv returns the bytes on the wire, _handle_message,
\* sendall of the response if there is one
HandlerRecv(c) ==
    /\ pc.handler[c] = "recv"
    /\ wire[c] # <<>>
    /\ \E h \in HandledCalmly[wire[c]] : last' = DoneAt("tcp", c, wire[c], h, TRUE)
    /\ wire' = [wire EXCEPT ![c] = <<>>]
    /\ acks' = [acks EXCEPT ![c] = @ + (IF last'.sent THEN 1 ELSE 0)]
    /\ HandlerAfter(c, last'.escaped)
    /\ UNCHANGED <<pushSent, envExc, nSent, running, listen, file, loaded>>

\* handle_tcp_client: recv returns b'' after the peer has closed
HandlerEof(c) ==
    /\ pc.handler[c] = "recv"
    /\ wire[c] = <<>>
    /\ status[c] = "peer_closed"
    /\ pc' = [pc EXCEPT !.handler[c] = "exited"]
    /\ status' = [status EXCEPT ![c] = "closed"]
    /\ UNCHANGED <<wire, acks, pushSent, envExc, nSent, last, running, listen, file, loaded>>

\* udp_loop: while self.running, then sock.recvfrom(4096)
UdpLoopTest ==
    /\ pc.udp_loop = "test"
    /\ pc' = [pc EXCEPT !.udp_loop =
                 IF running /\ "udp" \in listen.open THEN "recvfrom" ELSE "exited"]
    /\ listen' = [listen EXCEPT !.open =
                     IF running /\ "udp" \in listen.open THEN @ ELSE @ \ {"udp"}]
    /\ UNCHANGED <<status, wire, acks, pushSent, envExc, nSent, last, running, file, loaded>>

\* sock.recvfrom returns a datagram; its handler thread starts
UdpReceive(m) ==
    /\ pc.udp_loop = "recvfrom"
    /\ pc.udp_handler = "none"
    /\ Reachable("udp", pc.udp_loop, "recvfrom")
    /\ nSent < MaxSends
    /\ wire' = [wire EXCEPT ![0] = m]
    /\ nSent' = nSent + 1
    /\ pc' = [pc EXCEPT !.udp_loop = "test", !.udp_handler = "handle"]
    /\ UNCHANGED <<status, acks, pushSent, envExc, last, running, listen, file, loaded>>

\* the blocked sock.recvfrom raises because the socket was closed
RecvfromFails ==
    /\ pc.udp_loop = "recvfrom"
    /\ "udp" \notin listen.open
    /\ listen.wakes
    /\ pc' = [pc EXCEPT !.udp_loop = "exited"]
    /\ UNCHANGED <<status, wire, acks, pushSent, envExc, nSent, last, running, listen, file, loaded>>

\* handle_udp_packet: _handle_message
UdpHandle ==
    /\ pc.udp_handler = "handle"
    /\ \E h \in HandledCalmly[wire[0]] : last' = DoneAt("udp", 0, wire[0], h, FALSE)
    /\ pc' = [pc EXCEPT !.udp_handler =
                 IF last'.escaped \/ last'.resp = <<>> THEN "none" ELSE "reply"]
    /\ UNCHANGED <<status, wire, acks, pushSent, envExc, nSent, running, listen, file, loaded>>

\* handle_udp_packet: if local_port in self.udp_servers and response, then
\* sendto, which raises on a closed socket
UdpReply ==
    /\ pc.udp_handler = "reply"
    /\ pc' = [pc EXCEPT !.udp_handler = "none"]
    /\ last' = [last EXCEPT !.sent = UdpRegistered /\ "udp" \in listen.open,
                            !.afterStop = Stopped]
    /\ acks' = [acks EXCEPT ![0] = @ + (IF last'.sent THEN 1 ELSE 0)]
    /\ UNCHANGED <<status, wire, pushSent, envExc, nSent, running, listen, file, loaded>>

\* stop(): self.running = False
StopBegin ==
    /\ pc.stop = "idle"
    /\ running' = FALSE
    /\ pc' = [pc EXCEPT !.stop = "close_tcp"]
    /\ UNCHANGED <<status, wire, acks, pushSent, envExc, nSent, last, listen, file, loaded>>

\* stop(): the TCP listening sockets are closed, self.tcp_servers.clear()
StopCloseTcp ==
    /\ pc.stop = "close_tcp"
    /\ listen' = [listen EXCEPT !.open = @ \ {"tcp"}]
    /\ pc' = [pc EXCEPT !.stop = "close_udp"]
    /\ UNCHANGED <<status, wire, acks, pushSent, envExc, nSent, last, running, file, loaded>>

\* stop(): the UDP sockets are closed
StopCloseUdp ==
    /\ pc.stop = "close_udp"
    /\ listen' = [listen EXCEPT !.open = @ \ {"udp"}]
    /\ pc' = [pc EXCEPT !.stop = "clear_udp"]
    /\ UNCHANGED <<status, wire, acks, pushSent, envExc, nSent, last, running, file, loaded>>

\* stop(): self.udp_servers.clear(), and stop() returns
StopReturn ==
    /\ pc.stop = "clear_udp"
    /\ pc' = [pc EXCEPT !.stop = "returned"]
    /\ UNCHANGED <<status, wire, acks, pushSent, envExc, nSent, last, running, listen, file, loaded>>

PeerStep ==
    \/ \E c \in StopConns : Connect(c)
    \/ \E c \in StopConns, m \in StopMessages : PeerSend(c, m)
    \/ \E c \in StopConns : PeerClose(c)
    \/ \E m \in StopMessages : UdpReceive(m)

LoopStep ==
    \/ TcpLoopTest
    \/ \E c \in StopConns : Accept(c)
    \/ AcceptFails
    \/ UdpLoopTest
    \/ RecvfromFails

HandlerStep ==
    \/ \E c \in StopConns : HandlerTest(c)
    \/ \E c \in StopConns : HandlerRecv(c)
    \/ \E c \in StopConns : HandlerEof(c)
    \/ UdpHandle
    \/ UdpReply

StopStep == StopCloseTcp \/ StopCloseUdp \/ StopReturn

NextStop == PeerStep \/ LoopStep \/ HandlerStep \/ StopBegin \/ StopStep

SpecStop == InitStop /\ [][NextStop]_vars

\* every thread that can take a step takes one in the end; the peers and
\* the caller of stop() owe nothing
SpecStopLive ==
    SpecStop /\ WF_vars(LoopStep) /\ WF_vars(HandlerStep) /\ WF_vars(StopStep)

AllExited ==
    /\ pc.tcp_loop = "exited"
    /\ pc.udp_loop = "exited"
    /\ pc.udp_handler = "none"
    /\ \A c \in StopConns : pc.handler[c] \in {"unborn", "exited"}

\* C23: once stop() has been called, every loop thread and every handler
\* thread exits in the end without any step of a peer, at least where
\* closing a listening socket wakes the threads blocked on it.
C23_StopEndsEveryWorker == (pc.stop # "idle" /\ listen.wakes) ~> AllExited

\* C30: a buffer that reaches the server after stop() has returned calls no
\* callback and is answered on no TCP connection and no UDP socket.
C30_NothingAfterStop ==
    (last.kind \in {"tcp", "udp"} /\ last.afterStop) =>
        /\ ~HasOp(last.events, "on_dlms_push")
        /\ ~HasOp(last.events, "on_autoconnect")
        /\ ~last.sent

====
